---- MODULE Spec2Model ----
(***************************************************************************)
(* Model of the stoolap Python binding (src/src/*.rs).                     *)
(*                                                                         *)
(* Spec      : one Transaction handle shared by several host threads.      *)
(*             The host global lock (GIL), the handle's Mutex<Option<tx>>  *)
(*             and the engine transaction object are state; every method   *)
(*             of transaction.rs is translated step by step, one action    *)
(*             per stretch of code between two blocking points.            *)
(* SpecBatch : the three execute_batch variants (Database,                 *)
(*             PreparedStatement, Transaction) on the same state.          *)
(* SpecApi   : the methods of Database, PreparedStatement and Transaction  *)
(*             called by one thread.                                       *)
(* SpecExec  : Database::exec on scripts of a few statements.              *)
(* SpecSplit : split_sql_statements applied to every short text.           *)
(* SpecParams: parse_params and to_named_params applied to small host      *)
(*             objects.                                                    *)
(* SpecCodec : py_to_value, then value_to_py, applied to host scalars.     *)
(* SpecPath  : Database::open (translate_path) applied to paths.           *)
(*                                                                         *)
(* The engine (stoolap crate) is an external collaborator: each engine     *)
(* call returns success or failure nondeterministically.                   *)
(***************************************************************************)
EXTENDS Integers, Sequences, FiniteSets, TLC

VARIABLES
    gil,        \* holder of the host global lock (py: Python<'_>), or NoThread
    guard,      \* holder of Transaction.tx's Mutex, or NoThread
    tx,         \* content of the Mutex: "Some" (Active) or "None" (Closed)
    eng,        \* the engine transaction object created by Database::begin
    visible,    \* rows committed to the database, in commit order
    call,       \* per thread: the method call it is in, and its position
    ncalls,     \* number of method calls started so far
    closed,     \* a commit() or rollback() call on the handle has returned
    db,         \* the Database handle: its engine database and the statement prepared on it
    arg,        \* the argument handed to the pure function under study
    ret         \* what that function returned, or NotApplied

vars == <<gil, guard, tx, eng, visible, call, ncalls, closed, db, arg, ret>>

----------------------------------------------------------------------------
\* Bounds of the model.

MaxCalls == 2
MaxSets == 2
MaxLen == 4

\* Host threads sharing the handles; NoThread marks a free lock.
Threads == {"t1", "t2"}
NoThread == "nobody"

\* Kinds of host value handed as a parameter collection.
ParamKinds == {"list", "dict", "bad"}

\* Kinds of SQL text handed to the engine's parser.
SqlKinds == {"ok", "bad", "empty"}

\* Rows-affected counts the engine may report for one execution.
EngineRows == {1, 2}

RECURSIVE SeqsUpTo(_, _)
SeqsUpTo(S, n) ==
    IF n = 0 THEN {<<>>}
    ELSE LET shorter == SeqsUpTo(S, n - 1)
         IN  shorter \cup {Append(s, x) : s \in {q \in shorter : Len(q) = n - 1}, x \in S}

ParamLists == SeqsUpTo(ParamKinds, MaxSets)

RECURSIVE SumSeq(_)
SumSeq(s) == IF s = <<>> THEN 0 ELSE Head(s) + SumSeq(Tail(s))

\* query stands for query, query_one and query_raw: the three methods are the
\* same code up to the function that converts the rows.
DataOps == {"execute", "query"}
QueryOps == {"query", "Database.query", "PreparedStatement.query"}
TerminalOps == {"commit", "rollback"}

----------------------------------------------------------------------------
\* Pure helpers translated from the source.

\* Transaction::from_tx: the Mutex is built holding Some(tx).
from_tx == "Some"

\* Faulty variant of TakeLeaves: the transaction is borrowed (as_mut) where
\* it should be moved out, so the Mutex keeps it.
TakeKeeps(opt) == opt

\* Option::take as used by commit, rollback and __exit__: what the call
\* leaves behind in the Mutex.
TakeLeaves(opt) == "None"

\* Faulty variant of parse_params: a collection of another type, or one with
\* an unsupported element, is taken for an empty list.
parse_params_lenient(kind) ==
    IF kind = "dict" THEN "Named" ELSE "Positional"

\* parse_params: list/tuple -> Positional, dict -> Named, anything else
\* (or an element py_to_value rejects) -> TypeError.
parse_params(kind) ==
    CASE kind = "list" -> "Positional"
      [] kind = "dict" -> "Named"
      [] OTHER         -> "TypeError"

\* Faulty variant of BatchParams: only the first entry is inspected before
\* the batch starts.
BatchParamsHeadOnly(plist, j) ==
    IF plist = <<>> THEN "Ok"
    ELSE CASE parse_params(plist[1]) = "TypeError" -> "TypeError"
           [] parse_params(plist[1]) = "Named"     -> "PositionalOnly"
           [] OTHER                                -> "Ok"

\* The loop that opens every execute_batch: parse each entry in order,
\* propagate a parse_params error, reject the first Named entry.
RECURSIVE BatchParams(_, _)
BatchParams(plist, j) ==
    IF j > Len(plist) THEN "Ok"
    ELSE LET bind == parse_params(plist[j])
         IN  CASE bind = "TypeError"  -> "TypeError"
               [] bind = "Named"      -> "PositionalOnly"
               [] OTHER               -> BatchParams(plist, j + 1)

\* Parser::parse_program followed by program.statements.first().
\* program.statements of a text that parses: "ok" holds two statements,
\* "empty" none.
Statements(sql) ==
    CASE sql = "ok" -> <<"s1", "s2">>
      [] OTHER      -> <<>>

\* Faulty variant of first: every statement of the program is applied.
every(statements) == statements

\* program.statements.first(): the statement the batch applies.
first(statements) == SubSeq(statements, 1, 1)

ParseFirst(sql) ==
    CASE sql = "bad"   -> "ParseError"
      [] sql = "empty" -> "NoStatement"
      [] OTHER         -> "Ok"

----------------------------------------------------------------------------
\* split_sql_statements.  SQL text is a sequence of characters, each a
\* one-character string; NUL is the character '\0'.

NUL == "NUL"

\* The scanner at the top of the first loop turn (i counts from 1 here).
ScanStart ==
    [i |-> 1, in_single |-> FALSE, in_double |-> FALSE,
     in_line_comment |-> FALSE, in_block_comment |-> FALSE,
     current |-> <<>>, statements |-> <<>>]

\* i + 1 < chars.len() && chars[i + 1] == x
Follows(chars, i, x) == i + 1 <= Len(chars) /\ chars[i + 1] = x

\* let next = if i + 2 < chars.len() { chars[i + 2] } else { '\0' }
NextAfter(chars, i) == IF i + 2 <= Len(chars) THEN chars[i + 2] ELSE NUL

\* Faulty variant of StartsLineComment: any "--" starts a line comment.
StartsLineCommentAlways(next) == TRUE

\* next == '\0' || next == ' ' || next == '\t' || next == '\n' || next == '\r'
StartsLineComment(next) == next \in {NUL, " ", "\t", "\n", "\r"}

\* Faulty variant of Unescaped: the character before a quote is not looked at.
UnescapedAlways(chars, i) == TRUE

\* i == 0 || chars[i - 1] != '\\'
Unescaped(chars, i) == i = 1 \/ chars[i - 1] # "\\"

\* Track quote state: an unescaped ' flips in_single, else an unescaped "
\* flips in_double.
ToggleQuotes(chars, s) ==
    LET c == chars[s.i] IN
    IF c = "'" /\ Unescaped(chars, s.i)
    THEN [s EXCEPT !.in_single = ~@]
    ELSE IF c = "\"" /\ Unescaped(chars, s.i)
    THEN [s EXCEPT !.in_double = ~@]
    ELSE s

\* One turn of the while loop.
ScanStep(chars, s) ==
    LET c == chars[s.i] IN
    IF s.in_line_comment
    THEN IF c = "\n"
         THEN [s EXCEPT !.in_line_comment = FALSE, !.current = Append(@, c),
                        !.i = @ + 1]
         ELSE [s EXCEPT !.i = @ + 1]
    ELSE IF /\ ~s.in_single /\ ~s.in_double /\ ~s.in_block_comment
            /\ c = "-" /\ Follows(chars, s.i, "-")
            /\ StartsLineComment(NextAfter(chars, s.i))
    THEN [s EXCEPT !.in_line_comment = TRUE, !.i = @ + 2]
    ELSE IF s.in_block_comment
    THEN IF c = "*" /\ Follows(chars, s.i, "/")
         THEN [s EXCEPT !.in_block_comment = FALSE, !.i = @ + 2]
         ELSE [s EXCEPT !.i = @ + 1]
    ELSE IF ~s.in_single /\ ~s.in_double /\ c = "/" /\ Follows(chars, s.i, "*")
    THEN [s EXCEPT !.in_block_comment = TRUE, !.i = @ + 2]
    ELSE LET q == ToggleQuotes(chars, s) IN
         IF c = ";" /\ ~q.in_single /\ ~q.in_double
                    /\ ~q.in_block_comment /\ ~q.in_line_comment
         THEN [q EXCEPT !.statements = Append(@, q.current), !.current = <<>>,
                        !.i = @ + 1]
         ELSE [q EXCEPT !.current = Append(@, c), !.i = @ + 1]

\* while i < chars.len() { ... }
RECURSIVE Scan(_, _)
Scan(chars, s) == IF s.i > Len(chars) THEN s ELSE Scan(chars, ScanStep(chars, s))

\* Faulty variant of Remaining: the fragment is pushed even when empty.
RemainingAlways(current) == <<current>>

\* if !current.is_empty() { statements.push(current); }
Remaining(current) == IF current # <<>> THEN <<current>> ELSE <<>>

split_sql_statements(chars) ==
    LET s == Scan(chars, ScanStart) IN s.statements \o Remaining(s.current)

\* char::is_whitespace, on the characters of the model.
is_whitespace(c) == c \in {" ", "\t", "\n", "\r"}

\* str::trim: leading and trailing whitespace removed.
RECURSIVE trim_start(_)
trim_start(str) ==
    IF str # <<>> /\ is_whitespace(Head(str)) THEN trim_start(Tail(str)) ELSE str

RECURSIVE trim_end(_)
trim_end(str) ==
    IF str # <<>> /\ is_whitespace(str[Len(str)])
    THEN trim_end(SubSeq(str, 1, Len(str) - 1)) ELSE str

trim(str) == trim_end(trim_start(str))

\* s.starts_with(prefix)
starts_with(s, prefix) ==
    Len(s) >= Len(prefix) /\ SubSeq(s, 1, Len(prefix)) = prefix

memory_name == <<":", "m", "e", "m", "o", "r", "y", ":">>

memory_scheme == <<"m", "e", "m", "o", "r", "y", ":", "/", "/">>

file_scheme == <<"f", "i", "l", "e", ":", "/", "/">>

\* Faulty variant of translate_path: every string with "://" in it is
\* handed over as it is.
translate_path_any_scheme(path) ==
    LET trimmed == trim(path) IN
    IF trimmed = <<>> \/ trimmed = memory_name THEN memory_scheme
    ELSE IF \E k \in 1..Len(trimmed) : starts_with(SubSeq(trimmed, k, Len(trimmed)), <<":", "/", "/">>)
         THEN trimmed
         ELSE file_scheme \o trimmed

\* translate_path: the DSN handed to the engine for a path.
translate_path(path) ==
    LET trimmed == trim(path) IN
    IF trimmed = <<>> \/ trimmed = memory_name THEN memory_scheme
    ELSE IF starts_with(trimmed, memory_scheme) \/ starts_with(trimmed, file_scheme)
         THEN trimmed
         ELSE file_scheme \o trimmed

\* Host values.  A host object is a record with its type, a token v for
\* its scalar content and, for a datetime, its fields dt; a bool is also an
\* instance of int.  A list or a tuple handed as parameters carries its
\* items, a dict its (key, value) pairs in iteration order, a key being a
\* str (its characters) or not.

NonStringKey == <<"int">>

NoTz == [kind |-> "naive", secs |-> 0, micros |-> 0]

\* chrono::Utc / datetime.timezone.utc
utc_tz == [kind |-> "offset", secs |-> 0, micros |-> 0]

NoDateTime ==
    [year |-> 0, month |-> 0, day |-> 0, hour |-> 0, minute |-> 0,
     second |-> 0, microsecond |-> 0, tzinfo |-> NoTz]

NoInstant == [year |-> 0, month |-> 0, day |-> 0, secs |-> 0, micros |-> 0]

Host(type, v) == [type |-> type, v |-> v, dt |-> NoDateTime]

HostDateTime(dt) == [type |-> "datetime", v |-> "", dt |-> dt]

\* obj.downcast::<cls>() succeeds.
downcast(obj, cls) ==
    \/ obj.type = cls
    \/ obj.type = "bool" /\ cls = "int"

\* i.extract::<i64>(): an int outside the 64-bit range does not convert.
extract_i64(obj) == obj.v # "2^63"

\* An engine value: its type, the token of a scalar, the UTC instant of a
\* Timestamp (date, second of the day, microsecond).
EngineValue(type, v) == [type |-> type, v |-> v, ts |-> NoInstant]

Timestamp(ts) == [type |-> "Timestamp", v |-> "", ts |-> ts]

\* chrono's calendar: NaiveDate::from_ymd_opt and the date arithmetic
\* behind NaiveDateTime - Duration.
is_leap_year(y) == (y % 4 = 0 /\ y % 100 # 0) \/ y % 400 = 0

days_in_month(y, m) ==
    CASE m \in {4, 6, 9, 11} -> 30
      [] m = 2 -> IF is_leap_year(y) THEN 29 ELSE 28
      [] OTHER -> 31

pred_day(d) ==
    IF d.day > 1 THEN [d EXCEPT !.day = d.day - 1]
    ELSE IF d.month > 1
         THEN [d EXCEPT !.month = d.month - 1,
                        !.day = days_in_month(d.year, d.month - 1)]
         ELSE [d EXCEPT !.year = d.year - 1, !.month = 12, !.day = 31]

succ_day(d) ==
    IF d.day < days_in_month(d.year, d.month) THEN [d EXCEPT !.day = d.day + 1]
    ELSE IF d.month < 12
         THEN [d EXCEPT !.month = d.month + 1, !.day = 1]
         ELSE [d EXCEPT !.year = d.year + 1, !.month = 1, !.day = 1]

\* NaiveDate::from_ymd_opt(year, month, day)
\*     .and_then(|d| d.and_hms_micro_opt(hour, minute, second, micro))
and_hms_micro_opt(dt) ==
    [year |-> dt.year, month |-> dt.month, day |-> dt.day,
     secs |-> dt.hour * 3600 + dt.minute * 60 + dt.second,
     micros |-> dt.microsecond]

\* naive_local - chrono::Duration::seconds(offset_secs)
RECURSIVE sub_seconds(_, _)
sub_seconds(naive, offset_secs) ==
    LET t == naive.secs - offset_secs IN
    IF t < 0 THEN sub_seconds([pred_day(naive) EXCEPT !.secs = 0], -(t + 86400))
    ELSE IF t >= 86400
         THEN sub_seconds([succ_day(naive) EXCEPT !.secs = 0], -(t - 86400))
         ELSE [naive EXCEPT !.secs = t]

\* let total_seconds: f64 = utc_offset.call_method0("total_seconds")?;
\* let offset_secs = total_seconds as i64;
\* The offset is the timedelta tz.secs + tz.micros / 10^6 (0 <= micros <
\* 10^6); the cast truncates towards zero.
offset_secs(tz) ==
    IF tz.secs < 0 /\ tz.micros > 0 THEN tz.secs + 1 ELSE tz.secs

\* py_datetime_to_value: the wall-clock fields, as they are for a datetime
\* without tzinfo, less the UTC offset for one with tzinfo.  (A tzinfo whose
\* utcoffset() is None, the only input that reaches the dt.timestamp() arm,
\* is not among the inputs.)
py_datetime_to_value(dt) ==
    IF dt.tzinfo.kind = "naive"
    THEN Timestamp(and_hms_micro_opt(dt))
    ELSE Timestamp(sub_seconds(and_hms_micro_opt(dt), offset_secs(dt.tzinfo)))

PyErr == [err |-> TRUE, value |-> EngineValue("none", "")]

PyOk(value) == [err |-> FALSE, value |-> value]

\* py_to_value: the engine value of a host value; the probes run in the
\* order None, bool, int, float, str, datetime, Vector, dict or list (JSON
\* text); a type no arm accepts is a TypeError.
py_to_value(obj) ==
    CASE obj.type = "None" -> PyOk(EngineValue("Null", ""))
      [] downcast(obj, "bool") -> PyOk(EngineValue("Boolean", obj.v))
      [] downcast(obj, "int") ->
            IF extract_i64(obj) THEN PyOk(EngineValue("Integer", obj.v)) ELSE PyErr
      [] downcast(obj, "float") -> PyOk(EngineValue("Float", obj.v))
      [] downcast(obj, "str") -> PyOk(EngineValue("Text", obj.v))
      [] downcast(obj, "datetime") -> PyOk(py_datetime_to_value(obj.dt))
      [] downcast(obj, "Vector") -> PyOk(EngineValue("Vector", obj.v))
      [] downcast(obj, "dict") \/ downcast(obj, "list") ->
            PyOk(EngineValue("Json", obj.v))
      [] OTHER -> PyErr

\* value_to_py: the host value of an engine value.  A Timestamp becomes a
\* datetime with tzinfo UTC, or its ISO text when the host cannot build the
\* datetime (a year outside 1..9999); a vector becomes a list, JSON stays
\* text.
value_to_py(val) ==
    CASE val.type = "Null" -> Host("None", "")
      [] val.type = "Boolean" -> Host("bool", val.v)
      [] val.type = "Integer" -> Host("int", val.v)
      [] val.type = "Float" -> Host("float", val.v)
      [] val.type = "Text" -> Host("str", val.v)
      [] val.type = "Timestamp" ->
            IF val.ts.year \in 1..9999
            THEN HostDateTime(
                    [year |-> val.ts.year, month |-> val.ts.month, day |-> val.ts.day,
                     hour |-> val.ts.secs \div 3600,
                     minute |-> (val.ts.secs % 3600) \div 60,
                     second |-> val.ts.secs % 60,
                     microsecond |-> val.ts.micros,
                     tzinfo |-> utc_tz])
            ELSE Host("str", "isoformat")
      [] val.type = "Vector" -> Host("list", val.v)
      [] OTHER -> Host("str", val.v)

\* key_str.trim_start_matches(p): every leading p is removed.
RECURSIVE trim_start_matches(_, _)
trim_start_matches(key, p) ==
    IF key # <<>> /\ Head(key) = p THEN trim_start_matches(Tail(key), p) ELSE key

\* let clean = key_str.trim_start_matches(':').trim_start_matches('@')
\*                    .trim_start_matches('$')
clean_key(key) ==
    trim_start_matches(trim_start_matches(trim_start_matches(key, ":"), "@"), "$")

ParamsTypeError == [bind |-> "TypeError", values |-> <<>>]

\* Faulty variant of push_values: the items are pushed last to first.
push_values_reversed(items) ==
    [j \in 1..Len(items) |-> py_to_value(items[Len(items) + 1 - j]).value]

\* for item in list.iter() { values.push(py_to_value(&item)?); }
push_values(items) ==
    [j \in 1..Len(items) |-> py_to_value(items[j]).value]

\* parse_params(params), on the object itself: None -> empty Positional;
\* list, tuple -> Positional of the converted items; dict -> Named of the
\* (cleaned key, converted value) pairs; the first key.extract() or
\* py_to_value error leaves the function (?); any other type -> TypeError.
ParseParams(params) ==
    CASE params.type = "None" -> [bind |-> "Positional", values |-> <<>>]
      [] params.type \in {"list", "tuple"} ->
            IF \E j \in 1..Len(params.items) : py_to_value(params.items[j]).err
            THEN ParamsTypeError
            ELSE [bind |-> "Positional", values |-> push_values(params.items)]
      [] params.type = "dict" ->
            IF \E j \in 1..Len(params.items) :
                    \/ params.items[j][1] = NonStringKey
                    \/ py_to_value(params.items[j][2]).err
            THEN ParamsTypeError
            ELSE [bind |-> "Named",
                  values |-> [j \in 1..Len(params.items) |->
                                <<clean_key(params.items[j][1]),
                                  py_to_value(params.items[j][2]).value>>]]
      [] OTHER -> ParamsTypeError

\* NamedParams::insert(name, value): the binding of name is value, in place
\* of an earlier binding of the same name.
NamedParams_insert(np, name, value) ==
    IF \E j \in 1..Len(np) : np[j][1] = name
    THEN [j \in 1..Len(np) |-> IF np[j][1] = name THEN <<name, value>> ELSE np[j]]
    ELSE Append(np, <<name, value>>)

\* Faulty variant of to_named_params: the pairs are inserted last to first.
RECURSIVE to_named_params_reversed(_)
to_named_params_reversed(pairs) ==
    IF pairs = <<>> THEN <<>>
    ELSE NamedParams_insert(to_named_params_reversed(Tail(pairs)),
                            Head(pairs)[1], Head(pairs)[2])

\* to_named_params: for (key, val) in named { np.insert(key, val.clone()) },
\* in the order of the pairs.
RECURSIVE to_named_params(_)
to_named_params(pairs) ==
    IF pairs = <<>> THEN <<>>
    ELSE LET n == Len(pairs) IN
         NamedParams_insert(to_named_params(SubSeq(pairs, 1, n - 1)),
                            pairs[n][1], pairs[n][2])

----------------------------------------------------------------------------
\* A call record of a thread that is in no method.
NoCall ==
    [pc |-> "idle", op |-> "none", kind |-> "list", sql |-> "ok",
     plist |-> <<>>, exc |-> FALSE, i |-> 0, total |-> 0, counts |-> <<>>,
     own |-> <<>>, took |-> FALSE, engOk |-> TRUE, log |-> <<>>,
     res |-> "none", after |-> FALSE, stmts |-> <<>>, plan |-> 0, parses |-> 0]

\* The record of a call of method op that has just been entered.
Entered(op) ==
    [NoCall EXCEPT !.pc = "entered", !.op = op, !.after = closed]

\* The statement handle of a Database on which nothing has been prepared;
\* plans are numbered from 1 in the order cached_plan made them.
NoStatementHandle == [plan |-> 0, sql_text |-> "none"]

\* The result slot of a pure function that has not been applied yet, and
\* the one holding what it returned.
NotApplied == [applied |-> FALSE, value |-> <<>>]
Applied(v) == [applied |-> TRUE, value |-> v]

\* The database handle right after Database::open, and the one on which a
\* prepare call has returned a statement handle.
FreshDatabase == [open |-> TRUE, stmt |-> NoStatementHandle, compiled |-> <<>>]
PreparedDatabase ==
    [open |-> TRUE, stmt |-> [plan |-> 1, sql_text |-> "ok"], compiled |-> <<"ok">>]

\* The handles right after construction, every thread outside any method.
HandlesOn(database) ==
    /\ gil = NoThread
    /\ guard = NoThread
    /\ tx = from_tx
    /\ eng = [state |-> "open", pending |-> <<>>, commits |-> 0, rollbacks |-> 0]
    /\ visible = <<>>
    /\ call = [t \in Threads |-> NoCall]
    /\ ncalls = 0
    /\ closed = FALSE
    /\ db = database

Handles == HandlesOn(FreshDatabase)

Init ==
    /\ Handles
    /\ arg = <<>>
    /\ ret = NotApplied

----------------------------------------------------------------------------
\* The engine transaction object (stoolap::api::Transaction), as far as the
\* binding observes it.

\* tx.execute / tx.execute_prepared: a successful execution adds its effect
\* to the transaction's pending writes; a failed one adds nothing.
EngineExecute(e, v, ok) ==
    IF ok THEN [e EXCEPT !.pending = Append(@, v)] ELSE e

\* tx.commit / tx.rollback: the transaction ends either way.
EngineTerminal(e, which, ok) ==
    [e EXCEPT !.state = CASE which = "commit" /\ ok -> "committed"
                          [] which = "rollback"     -> "rolledback"
                          [] OTHER                  -> "aborted",
              !.commits = IF which = "commit" THEN @ + 1 ELSE @,
              !.rollbacks = IF which = "rollback" THEN @ + 1 ELSE @]

\* What a terminal call makes visible: the pending writes on a successful
\* commit, nothing otherwise.
Published(pending, which, ok) ==
    IF which = "commit" /\ ok THEN pending ELSE <<>>

----------------------------------------------------------------------------
\* Entering and leaving a method.  A host thread runs binding code only
\* while it holds the GIL: it takes the GIL to enter a method, and it still
\* holds it when the method has returned ("done"), until the interpreter
\* switches threads (HostContinue).

CanEnter(t) ==
    /\ call[t].pc = "idle"
    /\ gil = NoThread
    /\ ncalls < MaxCalls

\* py.allow_threads(f): who holds the GIL while f runs.
allow_threads(t) == NoThread

\* The method has returned res to the host.
Done(t, res) == [call[t] EXCEPT !.pc = "done", !.res = res]

\* The interpreter moves on: the thread gives up the GIL.
HostContinue(t) ==
    /\ call[t].pc = "done"
    /\ gil' = NoThread
    /\ call' = [call EXCEPT ![t] = NoCall]
    /\ closed' = (closed \/ call[t].op \in TerminalOps)
    /\ UNCHANGED <<guard, tx, eng, visible, ncalls, db, arg, ret>>

\* End of a py.allow_threads whose closure dropped the guard: the GIL is
\* taken back; the query variants then convert the rows (rows_to_dicts,
\* first_row_to_dict, rows_to_raw), which fails when a row does; the
\* method returns.
Return(t) ==
    /\ call[t].pc = "gilwait"
    /\ call[t].op # "exit"
    /\ gil = NoThread
    /\ gil' = t
    /\ \E rowsOk \in BOOLEAN :
        /\ (rowsOk = FALSE) => (call[t].op \in QueryOps /\ call[t].res = "Ok")
        /\ call' = [call EXCEPT ![t] =
                        Done(t, IF rowsOk THEN call[t].res ELSE "EngineError")]
    /\ UNCHANGED <<guard, tx, eng, visible, ncalls, closed, db, arg, ret>>

----------------------------------------------------------------------------
\* Transaction::execute, query, query_one, query_raw.

\* Entry: parse_params(params)? with the GIL held, then py.allow_threads.
Transaction_execute(t) ==
    \E op \in DataOps, k \in ParamKinds :
        /\ CanEnter(t)
        /\ ncalls' = ncalls + 1
        /\ IF parse_params(k) = "TypeError"
           THEN /\ gil' = t
                /\ call' = [call EXCEPT ![t] =
                       [Entered(op) EXCEPT !.kind = k, !.pc = "done", !.res = "TypeError"]]
           ELSE /\ gil' = allow_threads(t)
                /\ call' = [call EXCEPT ![t] =
                       [Entered(op) EXCEPT !.kind = k, !.pc = "lock"]]
        /\ UNCHANGED <<guard, tx, eng, visible, closed, db, arg, ret>>

\* Faulty variant of WithTxGuard: the guard is dropped before the closure
\* runs.
WithTxUnguarded(t) == NoThread

\* The guard a thread holds while with_tx runs its closure.
WithTxGuard(t) == t

\* Faulty variant of TxRef: the Option is unwrapped without a test.
TxRefUnchecked(opt) == "Ok"

\* guard.as_mut().ok_or_else(|| StoolapError::new_err("Transaction is no
\* longer active"))
TxRef(opt) == IF opt = "None" THEN "NotActive" ELSE "Ok"

\* Faulty variant of AsMutLeaves: the transaction is moved out (take) where
\* it should be borrowed.
AsMutTakes(opt) == "None"

\* guard.as_mut(): the Option is borrowed, its content stays in the Mutex.
AsMutLeaves(opt) == opt

\* Transaction::with_tx up to the closure: lock the Mutex, as_mut the Option.
\* On None the error is returned and the guard dropped at once.
with_tx(t) ==
    /\ call[t].pc = "lock"
    /\ call[t].op \in DataOps \cup {"execute_batch"}
    /\ guard = NoThread
    /\ IF TxRef(tx) = "NotActive"
       THEN /\ call' = [call EXCEPT ![t] = [@ EXCEPT !.pc = "gilwait", !.res = "NotActive"]]
            /\ guard' = guard
       ELSE /\ call' = [call EXCEPT ![t] = [@ EXCEPT !.pc = "engine", !.i = 1]]
            /\ guard' = WithTxGuard(t)
    /\ tx' = AsMutLeaves(tx)
    /\ UNCHANGED <<gil, eng, visible, ncalls, closed, db, arg, ret>>

\* The closure of execute/query: one engine call, then with_tx returns and
\* the guard is dropped.
DataEngine(t) ==
    /\ call[t].pc = "engine"
    /\ call[t].op \in DataOps
    /\ \E ok \in BOOLEAN :
        /\ eng' = IF call[t].op = "execute" THEN EngineExecute(eng, 0, ok) ELSE eng
        /\ call' = [call EXCEPT ![t] =
                        [@ EXCEPT !.pc = "gilwait",
                                  !.log = Append(@, <<call[t].op, 0>>),
                                  !.res = IF ok THEN "Ok" ELSE "EngineError"]]
    /\ guard' = NoThread
    /\ UNCHANGED <<gil, tx, visible, ncalls, closed, db, arg, ret>>

----------------------------------------------------------------------------
\* Transaction::commit and Transaction::rollback.

\* Entry: the whole body runs inside py.allow_threads.
Transaction_commit(t) ==
    \E op \in TerminalOps :
        /\ CanEnter(t)
        /\ ncalls' = ncalls + 1
        /\ gil' = allow_threads(t)
        /\ call' = [call EXCEPT ![t] = [Entered(op) EXCEPT !.pc = "lock"]]
        /\ UNCHANGED <<guard, tx, eng, visible, closed, db, arg, ret>>

\* Faulty variant of TakeOrElse: the taken Option is not tested.
TakeUnchecked(opt) == "Ok"

\* guard.take().ok_or_else(|| StoolapError::new_err("Transaction is no
\* longer active"))
TakeOrElse(opt) == IF opt = "None" THEN "NotActive" ELSE "Ok"

\* self.tx.lock() and guard.take(): on None the error is returned and the
\* guard dropped; on Some the transaction is moved out of the Mutex.
TerminalLock(t) ==
    /\ call[t].pc = "lock"
    /\ call[t].op \in TerminalOps
    /\ guard = NoThread
    /\ IF TakeOrElse(tx) = "NotActive"
       THEN /\ call' = [call EXCEPT ![t] = [@ EXCEPT !.pc = "gilwait", !.res = "NotActive"]]
            /\ UNCHANGED <<guard, tx>>
       ELSE /\ call' = [call EXCEPT ![t] = [@ EXCEPT !.pc = "engine", !.took = TRUE]]
            /\ guard' = t
            /\ tx' = TakeLeaves(tx)
    /\ UNCHANGED <<gil, eng, visible, ncalls, closed, db, arg, ret>>

\* Faulty variant of TerminalLeaves: a transaction whose commit or rollback
\* failed is put back into the Mutex.
TerminalRestores(opt, ok) == IF ok THEN opt ELSE "Some"

\* The Mutex content once the engine call on the moved-out transaction has
\* returned: the transaction is dropped, whatever the outcome, and nothing
\* is put back.
TerminalLeaves(opt, ok) == opt

\* tx.commit() / tx.rollback() on the moved-out transaction, its error
\* mapped by to_py; the closure ends and the guard is dropped.
TerminalEngine(t) ==
    /\ call[t].pc = "engine"
    /\ call[t].op \in TerminalOps
    /\ \E ok \in BOOLEAN :
        /\ eng' = EngineTerminal(eng, call[t].op, ok)
        /\ visible' = visible \o Published(eng.pending, call[t].op, ok)
        /\ call' = [call EXCEPT ![t] =
                        [@ EXCEPT !.pc = "gilwait",
                                  !.engOk = ok,
                                  !.log = Append(@, <<call[t].op, 0>>),
                                  !.res = IF ok THEN "Ok" ELSE "EngineError"]]
        /\ tx' = TerminalLeaves(tx, ok)
    /\ guard' = NoThread
    /\ UNCHANGED <<gil, ncalls, closed, db, arg, ret>>

----------------------------------------------------------------------------
\* Transaction::__enter__, __exit__, __repr__.

\* __enter__ returns the handle itself.
Transaction_enter(t) ==
    /\ CanEnter(t)
    /\ ncalls' = ncalls + 1
    /\ gil' = t
    /\ call' = [call EXCEPT ![t] = [Entered("enter") EXCEPT !.pc = "done", !.res = "self"]]
    /\ UNCHANGED <<guard, tx, eng, visible, closed, db, arg, ret>>

\* Entry of __exit__ and of __repr__: the GIL is held, and kept, up to
\* self.tx.lock().
Transaction_exit(t) ==
    \E e \in BOOLEAN :
        /\ CanEnter(t)
        /\ ncalls' = ncalls + 1
        /\ gil' = t
        /\ call' = [call EXCEPT ![t] = [Entered("exit") EXCEPT !.exc = e]]
        /\ UNCHANGED <<guard, tx, eng, visible, closed, db, arg, ret>>

Transaction_repr(t) ==
    /\ CanEnter(t)
    /\ ncalls' = ncalls + 1
    /\ gil' = t
    /\ call' = [call EXCEPT ![t] = Entered("repr")]
    /\ UNCHANGED <<guard, tx, eng, visible, closed, db, arg, ret>>

\* The engine call __exit__ makes on the transaction it took.
ExitTerminal(exc) == IF exc THEN "rollback" ELSE "commit"

\* Faulty variants of ExitResult: the commit error is dropped like the
\* rollback error; the rollback error is propagated like the commit error.
ExitResultSwallows(exc, ok) == "false"

ExitResultPropagates(exc, ok) == IF ok THEN "false" ELSE "EngineError"

\* What __exit__ returns once its engine call is over: the rollback result
\* is dropped (let _ =), the commit error is propagated (?).
ExitResult(exc, ok) ==
    IF exc THEN "false" ELSE IF ok THEN "false" ELSE "EngineError"

\* Faulty variant of IfLetSome: the branch is taken whatever was in the
\* Mutex.
IfLetSomeAlways(opt) == TRUE

\* if let Some(tx) = guard.take()
IfLetSome(opt) == opt = "Some"

\* self.tx.lock() with the GIL held, then guard.take().  On Some the
\* engine call is made inside py.allow_threads, the guard still held; on
\* None the method returns Ok(false).
ExitLock(t) ==
    /\ call[t].pc = "entered"
    /\ call[t].op = "exit"
    /\ guard = NoThread
    /\ IF IfLetSome(tx)
       THEN /\ call' = [call EXCEPT ![t] = [@ EXCEPT !.pc = "engine", !.took = TRUE]]
            /\ guard' = t
            /\ tx' = TakeLeaves(tx)
            /\ gil' = allow_threads(t)
       ELSE /\ call' = [call EXCEPT ![t] = Done(t, "false")]
            /\ UNCHANGED <<gil, guard, tx>>
    /\ UNCHANGED <<eng, visible, ncalls, closed, db, arg, ret>>

\* tx.rollback() or tx.commit() inside py.allow_threads.
ExitEngine(t) ==
    /\ call[t].pc = "engine"
    /\ call[t].op = "exit"
    /\ \E ok \in BOOLEAN :
        LET which == ExitTerminal(call[t].exc) IN
        /\ eng' = EngineTerminal(eng, which, ok)
        /\ visible' = visible \o Published(eng.pending, which, ok)
        /\ call' = [call EXCEPT ![t] =
                        [@ EXCEPT !.pc = "gilwait",
                                  !.engOk = ok,
                                  !.log = Append(@, <<which, 0>>)]]
    /\ UNCHANGED <<gil, guard, tx, ncalls, closed, db, arg, ret>>

\* End of py.allow_threads inside __exit__: the GIL is taken back while the
\* guard is still held; then the method returns and the guard is dropped.
ExitReturn(t) ==
    /\ call[t].pc = "gilwait"
    /\ call[t].op = "exit"
    /\ gil = NoThread
    /\ gil' = t
    /\ guard' = NoThread
    /\ call' = [call EXCEPT ![t] = Done(t, ExitResult(call[t].exc, call[t].engOk))]
    /\ UNCHANGED <<tx, eng, visible, ncalls, closed, db, arg, ret>>

\* __repr__: self.tx.lock() with the GIL held, is_some(), unlock, return.
Repr(t) ==
    /\ call[t].pc = "entered"
    /\ call[t].op = "repr"
    /\ guard = NoThread
    /\ call' = [call EXCEPT ![t] =
                    Done(t, IF tx = "Some" THEN "Transaction(active)"
                                           ELSE "Transaction(closed)")]
    /\ UNCHANGED <<gil, guard, tx, eng, visible, ncalls, closed, db, arg, ret>>

----------------------------------------------------------------------------
\* Transaction::execute_batch.

\* Faulty variant of Accumulate: total = n.
AccumulateLast(total, n) == n

\* total += n.
Accumulate(total, n) == total + n

\* Faulty variant of BatchSet: the sets are taken from the end of the list.
BatchSetReversed(plist, i) == Len(plist) + 1 - i

\* for params in all_params: the parameter set executed in turn i.
BatchSet(plist, i) == i

\* Entry: the parameter sets are parsed with the GIL held; then, inside
\* py.allow_threads, the SQL is parsed and its first statement taken.
Transaction_execute_batch(t) ==
    \E s \in SqlKinds, pl \in ParamLists :
        LET rec == [Entered("execute_batch") EXCEPT !.sql = s, !.plist = pl] IN
        /\ CanEnter(t)
        /\ ncalls' = ncalls + 1
        /\ IF BatchParams(pl, 1) # "Ok"
           THEN /\ gil' = t
                /\ call' = [call EXCEPT ![t] =
                       [rec EXCEPT !.pc = "done", !.res = BatchParams(pl, 1)]]
           ELSE /\ gil' = allow_threads(t)
                /\ call' = [call EXCEPT ![t] =
                       IF ParseFirst(s) # "Ok"
                       THEN [rec EXCEPT !.pc = "gilwait", !.res = ParseFirst(s),
                                        !.parses = 1]
                       ELSE [rec EXCEPT !.pc = "lock", !.parses = 1,
                                        !.stmts = first(Statements(s))]]
        /\ UNCHANGED <<guard, tx, eng, visible, closed, db, arg, ret>>

\* The closure handed to with_tx: one tx.execute_prepared per parameter
\* set, in order; the first failure ends the closure; after the last set
\* the total is returned.  The guard is dropped when the closure ends.
TxBatchStep(t) ==
    /\ call[t].pc = "engine"
    /\ call[t].op = "execute_batch"
    /\ IF call[t].i <= Len(call[t].plist)
       THEN \E ok \in BOOLEAN, n \in EngineRows :
            LET set == BatchSet(call[t].plist, call[t].i) IN
            /\ eng' = EngineExecute(eng, set, ok)
            /\ guard' = IF ok THEN guard ELSE NoThread
            /\ call' = [call EXCEPT ![t] =
                   IF ok
                   THEN [@ EXCEPT !.i = @ + 1,
                                  !.log = Append(@, <<"execute_prepared", set>>),
                                  !.total = Accumulate(@, n),
                                  !.counts = Append(@, n)]
                   ELSE [@ EXCEPT !.pc = "gilwait",
                                  !.log = Append(@, <<"execute_prepared", set>>),
                                  !.res = "EngineError"]]
       ELSE /\ eng' = eng
            /\ guard' = NoThread
            /\ call' = [call EXCEPT ![t] = [@ EXCEPT !.pc = "gilwait", !.res = "Ok"]]
    /\ UNCHANGED <<gil, tx, visible, ncalls, closed, db, arg, ret>>

----------------------------------------------------------------------------
\* Database::execute_batch and PreparedStatement::execute_batch: the batch
\* runs in a transaction the call begins and owns.

OwnedOps == {"Database.execute_batch", "PreparedStatement.execute_batch"}

\* Faulty variant of PlanOf: the call compiles the SQL text again.
PlanRecompiled(stmt) == stmt.plan + 1

\* let plan = self.plan.clone()
PlanOf(stmt) == stmt.plan

\* Entry of Database::execute_batch: the parameter sets are parsed with the
\* GIL held; then, inside py.allow_threads, the SQL is parsed and its first
\* statement taken.
Database_execute_batch(t) ==
    \E s \in SqlKinds, pl \in ParamLists :
        LET rec == [Entered("Database.execute_batch") EXCEPT !.sql = s, !.plist = pl] IN
        /\ CanEnter(t)
        /\ ncalls' = ncalls + 1
        /\ IF BatchParams(pl, 1) # "Ok"
           THEN /\ gil' = t
                /\ call' = [call EXCEPT ![t] =
                       [rec EXCEPT !.pc = "done", !.res = BatchParams(pl, 1)]]
           ELSE /\ gil' = allow_threads(t)
                /\ call' = [call EXCEPT ![t] =
                       IF ParseFirst(s) # "Ok"
                       THEN [rec EXCEPT !.pc = "gilwait", !.res = ParseFirst(s),
                                        !.parses = 1]
                       ELSE [rec EXCEPT !.pc = "begin", !.parses = 1,
                                        !.stmts = first(Statements(s))]]
        /\ UNCHANGED <<guard, tx, eng, visible, closed, db, arg, ret>>

\* Entry of PreparedStatement::execute_batch: the parameter sets are parsed
\* with the GIL held; the statement is the one of the plan compiled by
\* PreparedStatement::new.
PreparedStatement_execute_batch(t) ==
    \E pl \in ParamLists :
        LET rec == [Entered("PreparedStatement.execute_batch") EXCEPT !.plist = pl] IN
        /\ db.stmt # NoStatementHandle
        /\ CanEnter(t)
        /\ ncalls' = ncalls + 1
        /\ IF BatchParams(pl, 1) # "Ok"
           THEN /\ gil' = t
                /\ call' = [call EXCEPT ![t] =
                       [rec EXCEPT !.pc = "done", !.res = BatchParams(pl, 1)]]
           ELSE /\ gil' = allow_threads(t)
                /\ call' = [call EXCEPT ![t] =
                                [rec EXCEPT !.pc = "begin", !.plan = PlanOf(db.stmt)]]
        /\ UNCHANGED <<guard, tx, eng, visible, closed, db, arg, ret>>

\* let mut tx = self.db.begin().map_err(to_py)?
OwnedBegin(t) ==
    /\ call[t].pc = "begin"
    /\ call[t].op \in OwnedOps
    /\ \E ok \in BOOLEAN :
        call' = [call EXCEPT ![t] =
                    IF ok
                    THEN [@ EXCEPT !.pc = "own", !.i = 1,
                                   !.log = Append(@, <<"begin", 0>>)]
                    ELSE [@ EXCEPT !.pc = "gilwait", !.res = "EngineError",
                                   !.log = Append(@, <<"begin", 0>>)]]
    /\ UNCHANGED <<gil, guard, tx, eng, visible, ncalls, closed, db, arg, ret>>

\* Faulty variant of OwnedAbandon: the transaction outlives the failure.
OwnedKept(own) == own

\* What a failed execute_prepared leaves of the owned transaction: the ?
\* leaves the closure, the transaction is dropped and its writes with it.
OwnedAbandon(own) == <<>>

\* One turn of the loop: total += tx.execute_prepared(stmt, params)?
OwnedExecute(t) ==
    /\ call[t].pc = "own"
    /\ call[t].op \in OwnedOps
    /\ call[t].i <= Len(call[t].plist)
    /\ \E ok \in BOOLEAN, n \in EngineRows :
        LET set == BatchSet(call[t].plist, call[t].i) IN
        call' = [call EXCEPT ![t] =
                    IF ok
                    THEN [@ EXCEPT !.i = @ + 1,
                                   !.log = Append(@, <<"execute_prepared", set>>),
                                   !.own = Append(@, set),
                                   !.total = Accumulate(@, n),
                                   !.counts = Append(@, n)]
                    ELSE [@ EXCEPT !.pc = "gilwait",
                                   !.log = Append(@, <<"execute_prepared", set>>),
                                   !.own = OwnedAbandon(@),
                                   !.res = "EngineError"]]
    /\ UNCHANGED <<gil, guard, tx, eng, visible, ncalls, closed, db, arg, ret>>

\* After the loop: tx.commit().map_err(to_py)?; Ok(total)
OwnedCommit(t) ==
    /\ call[t].pc = "own"
    /\ call[t].op \in OwnedOps
    /\ call[t].i > Len(call[t].plist)
    /\ \E ok \in BOOLEAN :
        /\ visible' = visible \o Published(call[t].own, "commit", ok)
        /\ call' = [call EXCEPT ![t] =
                        [@ EXCEPT !.pc = "gilwait",
                                  !.engOk = ok,
                                  !.log = Append(@, <<"commit", 0>>),
                                  !.res = IF ok THEN "Ok" ELSE "EngineError"]]
    /\ UNCHANGED <<gil, guard, tx, eng, ncalls, closed, db, arg, ret>>

----------------------------------------------------------------------------
\* Database::execute, query, query_one, query_raw, exec, prepare, begin,
\* close and PreparedStatement::execute, query, query_one, query_raw.

\* Database::execute / execute_named in autocommit: a successful execution
\* is visible at once; a failed one changes nothing.
Autocommitted(rows, v, ok) == IF ok THEN Append(rows, v) ELSE rows

\* The method of class cls the data operation op stands for.
Method(cls, op) == IF op = "execute" THEN cls \o ".execute" ELSE cls \o ".query"

DatabaseDataOps == {Method("Database", op) : op \in DataOps}
StatementDataOps == {Method("PreparedStatement", op) : op \in DataOps}

\* Entry of Database::execute / query / query_one / query_raw:
\* parse_params(params)? with the GIL held, then py.allow_threads.
Database_execute(t) ==
    \E op \in DataOps, k \in ParamKinds :
        LET rec == [Entered(Method("Database", op)) EXCEPT !.kind = k] IN
        /\ CanEnter(t)
        /\ ncalls' = ncalls + 1
        /\ IF parse_params(k) = "TypeError"
           THEN /\ gil' = t
                /\ call' = [call EXCEPT ![t] = [rec EXCEPT !.pc = "done", !.res = "TypeError"]]
           ELSE /\ gil' = allow_threads(t)
                /\ call' = [call EXCEPT ![t] = [rec EXCEPT !.pc = "dbcall"]]
        /\ UNCHANGED <<guard, tx, eng, visible, closed, db, arg, ret>>

\* The scripts handed to exec: up to MaxSets + 1 fragments, each a
\* statement, a padded statement or blank, joined by semicolons.
ScriptFragments == {<<"a">>, <<" ", "b", " ">>, <<" ">>}

RECURSIVE Joined(_)
Joined(frags) ==
    IF frags = <<>> THEN <<>>
    ELSE IF Len(frags) = 1 THEN frags[1]
    ELSE frags[1] \o <<";">> \o Joined(Tail(frags))

Scripts == {Joined(f) : f \in SeqsUpTo(ScriptFragments, MaxSets + 1)}

\* Entry of Database::exec: the whole body runs inside py.allow_threads,
\* which starts by splitting the script.
Database_exec(t) ==
    \E script \in Scripts :
        /\ CanEnter(t)
        /\ ncalls' = ncalls + 1
        /\ gil' = allow_threads(t)
        /\ call' = [call EXCEPT ![t] =
                        [Entered("Database.exec") EXCEPT
                            !.pc = "exec", !.i = 1,
                            !.stmts = split_sql_statements(script)]]
        /\ UNCHANGED <<guard, tx, eng, visible, closed, db, arg, ret>>

\* Faulty variant of ExecSkips: a blank statement is handed to the engine
\* like any other.
ExecSkipsNothing(trimmed) == FALSE

\* if trimmed.is_empty() { continue; }
ExecSkips(trimmed) == trimmed = <<>>

\* One turn of the for loop of exec: trim the statement, skip it when
\* blank, else self.db.execute(trimmed, ()) whose error ends the call (?).
\* After the last statement: Ok(()).
ExecStep(t) ==
    /\ call[t].pc = "exec"
    /\ IF call[t].i > Len(call[t].stmts)
       THEN /\ call' = [call EXCEPT ![t] = [@ EXCEPT !.pc = "gilwait", !.res = "Ok"]]
            /\ visible' = visible
       ELSE LET trimmed == trim(call[t].stmts[call[t].i]) IN
            IF ExecSkips(trimmed)
            THEN /\ call' = [call EXCEPT ![t] = [@ EXCEPT !.i = @ + 1]]
                 /\ visible' = visible
            ELSE \E ok \in BOOLEAN :
                 /\ visible' = Autocommitted(visible, trimmed, ok)
                 /\ call' = [call EXCEPT ![t] =
                        IF ok
                        THEN [@ EXCEPT !.i = @ + 1,
                                       !.log = Append(@, <<"execute", trimmed, <<>> >>)]
                        ELSE [@ EXCEPT !.pc = "gilwait",
                                       !.log = Append(@, <<"execute", trimmed, <<>> >>),
                                       !.res = "EngineError"]]
    /\ UNCHANGED <<gil, guard, tx, eng, ncalls, closed, db, arg, ret>>

\* Entry of Database::prepare: PreparedStatement::new is called as is, the
\* GIL held.
Database_prepare(t) ==
    \E s \in SqlKinds :
        /\ CanEnter(t)
        /\ ncalls' = ncalls + 1
        /\ gil' = t
        /\ call' = [call EXCEPT ![t] =
                        [Entered("Database.prepare") EXCEPT !.pc = "compile", !.sql = s]]
        /\ UNCHANGED <<guard, tx, eng, visible, closed, db, arg, ret>>

\* PreparedStatement::new: db.cached_plan(sql), its error returned (?), its
\* plan kept in the new handle together with the SQL text.
PreparedStatement_new(t) ==
    /\ call[t].pc = "compile"
    /\ \E ok \in BOOLEAN :
        /\ ok => ParseFirst(call[t].sql) = "Ok"
        /\ db' = [db EXCEPT
                    !.compiled = Append(@, call[t].sql),
                    !.stmt = IF ok
                             THEN [plan |-> Len(db.compiled) + 1, sql_text |-> call[t].sql]
                             ELSE @]
        /\ call' = [call EXCEPT ![t] =
                        [@ EXCEPT !.pc = "done",
                                  !.log = Append(@, <<"cached_plan", call[t].sql>>),
                                  !.res = IF ok THEN "PreparedStatement" ELSE "EngineError"]]
    /\ UNCHANGED <<gil, guard, tx, eng, visible, ncalls, closed, arg, ret>>

\* Entry of Database::begin and Database::close: the engine call is made
\* inside py.allow_threads.
Database_begin(t) ==
    \E op \in {"Database.begin", "Database.close"} :
        /\ CanEnter(t)
        /\ ncalls' = ncalls + 1
        /\ gil' = allow_threads(t)
        /\ call' = [call EXCEPT ![t] = [Entered(op) EXCEPT !.pc = "dbcall"]]
        /\ UNCHANGED <<guard, tx, eng, visible, closed, db, arg, ret>>

\* Entry of PreparedStatement::execute / query / query_one / query_raw on
\* the handle a prepare call returned: parse_params(params)? and
\* self.plan.clone() with the GIL held, then py.allow_threads.
PreparedStatement_execute(t) ==
    \E op \in DataOps, k \in ParamKinds :
        LET rec == [Entered(Method("PreparedStatement", op)) EXCEPT !.kind = k] IN
        /\ db.stmt # NoStatementHandle
        /\ CanEnter(t)
        /\ ncalls' = ncalls + 1
        /\ IF parse_params(k) = "TypeError"
           THEN /\ gil' = t
                /\ call' = [call EXCEPT ![t] = [rec EXCEPT !.pc = "done", !.res = "TypeError"]]
           ELSE /\ gil' = allow_threads(t)
                /\ call' = [call EXCEPT ![t] =
                                [rec EXCEPT !.pc = "dbcall", !.plan = PlanOf(db.stmt)]]
        /\ UNCHANGED <<guard, tx, eng, visible, closed, db, arg, ret>>

\* The engine operation a Database or PreparedStatement method hands its
\* bind parameters to.
EngineOp(op, bind) ==
    CASE op = "Database.execute" ->
            IF bind = "Named" THEN "execute_named" ELSE "execute"
      [] op = "Database.query" ->
            IF bind = "Named" THEN "query_named" ELSE "query"
      [] op = "PreparedStatement.execute" ->
            IF bind = "Named" THEN "execute_named_plan" ELSE "execute_plan"
      [] op = "PreparedStatement.query" ->
            IF bind = "Named" THEN "query_named_plan" ELSE "query_plan"
      [] op = "Database.begin" -> "begin"
      [] OTHER -> "close"

\* The closure handed to py.allow_threads by these methods: one engine
\* call, its error mapped by to_py.
DbEngine(t) ==
    /\ call[t].pc = "dbcall"
    /\ \E ok \in BOOLEAN :
        LET op == call[t].op
            what == EngineOp(op, parse_params(call[t].kind))
        IN
        /\ visible' = IF what \in {"execute", "execute_named",
                                   "execute_plan", "execute_named_plan"}
                      THEN Autocommitted(visible, 0, ok) ELSE visible
        /\ db' = IF what = "close" /\ ok THEN [db EXCEPT !.open = FALSE] ELSE db
        /\ call' = [call EXCEPT ![t] =
                        [@ EXCEPT !.pc = "gilwait",
                                  !.log = Append(@, <<what, call[t].plan>>),
                                  !.res = IF ok THEN "Ok" ELSE "EngineError"]]
    /\ UNCHANGED <<gil, guard, tx, eng, ncalls, closed, arg, ret>>

----------------------------------------------------------------------------

Next ==
    \E t \in Threads :
        \/ Transaction_execute(t)
        \/ Transaction_execute_batch(t)
        \/ Transaction_commit(t)
        \/ Transaction_enter(t)
        \/ Transaction_exit(t)
        \/ Transaction_repr(t)
        \/ with_tx(t)
        \/ DataEngine(t)
        \/ TxBatchStep(t)
        \/ TerminalLock(t)
        \/ TerminalEngine(t)
        \/ ExitLock(t)
        \/ ExitEngine(t)
        \/ ExitReturn(t)
        \/ Repr(t)
        \/ Return(t)
        \/ HostContinue(t)

Spec == Init /\ [][Next]_vars

\* The batch calls are driven by one caller: an owned batch shares nothing
\* of this layer with another call, and the sharing of a Transaction handle
\* is what Spec is about.
BatchCallers == {"t1"}

NextBatch ==
    \E t \in BatchCallers :
        \/ Database_execute_batch(t)
        \/ PreparedStatement_execute_batch(t)
        \/ Transaction_execute_batch(t)
        \/ OwnedBegin(t)
        \/ OwnedExecute(t)
        \/ OwnedCommit(t)
        \/ with_tx(t)
        \/ TxBatchStep(t)
        \/ Return(t)
        \/ HostContinue(t)

\* The batch calls start on a database with a statement prepared on it.
InitBatch ==
    /\ HandlesOn(PreparedDatabase)
    /\ arg = <<>>
    /\ ret = NotApplied

SpecBatch == InitBatch /\ [][NextBatch]_vars

\* The methods of the three classes, one caller: Database and
\* PreparedStatement share nothing of this layer between two calls.
ApiCallers == {"t1"}

NextApi ==
    \E t \in ApiCallers :
        \/ Database_execute(t)
        \/ Database_prepare(t)
        \/ Database_begin(t)
        \/ PreparedStatement_execute(t)
        \/ PreparedStatement_execute_batch(t)
        \/ Transaction_execute(t)
        \/ Transaction_commit(t)
        \/ DbEngine(t)
        \/ PreparedStatement_new(t)
        \/ OwnedBegin(t)
        \/ OwnedExecute(t)
        \/ OwnedCommit(t)
        \/ with_tx(t)
        \/ DataEngine(t)
        \/ TerminalLock(t)
        \/ TerminalEngine(t)
        \/ Return(t)
        \/ HostContinue(t)

SpecApi == Init /\ [][NextApi]_vars

\* Database::exec on its own.
NextExec ==
    \E t \in ApiCallers :
        \/ Database_exec(t)
        \/ ExecStep(t)
        \/ Return(t)
        \/ HostContinue(t)

SpecExec == Init /\ [][NextExec]_vars

----------------------------------------------------------------------------
\* SpecSplit: split_sql_statements applied to every text of at most MaxLen
\* characters over SqlChars.

SqlChars == {";", "'", "\"", "-", "/", "*", "\\", "\n", " ", "a", NUL}

\* "INSERT INTO t VALUES ('a;b')"
QuotedSemicolonText ==
    <<"I", "N", "S", "E", "R", "T", " ", "I", "N", "T", "O", " ", "t",
      " ", "V", "A", "L", "U", "E", "S", " ", "(", "'", "a", ";", "b",
      "'", ")">>

\* "SELECT 1; -- c ; \n SELECT 2;"
LineCommentText ==
    <<"S", "E", "L", "E", "C", "T", " ", "1", ";", " ", "-", "-", " ",
      "c", " ", ";", " ", "\n", " ", "S", "E", "L", "E", "C", "T", " ",
      "2", ";">>

\* The texts of at most n characters, and the two above.
SplitInputs(n) ==
    SeqsUpTo(SqlChars, n) \cup {QuotedSemicolonText, LineCommentText}

InitSplit ==
    /\ Handles
    /\ arg \in SplitInputs(MaxLen)
    /\ ret = NotApplied

Split ==
    /\ ~ret.applied
    /\ ret' = Applied(split_sql_statements(arg))
    /\ UNCHANGED <<gil, guard, tx, eng, visible, call, ncalls, closed, db, arg>>

NextSplit == Split

SpecSplit == InitSplit /\ [][NextSplit]_vars

----------------------------------------------------------------------------
\* SpecParams: parse_params applied to None, to lists and tuples of at most
\* MaxSets items, to dicts of one entry whose key has at most MaxLen
\* characters, to dicts of at most MaxSets entries whose keys are spellings
\* of two names, and to an object of another type; to_named_params applied
\* to the pairs of a dict.

HostValues == {Host("int", "1"), Host("str", "a"), Host("object", "")}

KeyChars == {":", "@", "$", "i"}

\* The keys of at most n characters, and one that is not a str.
RawKeys(n) == SeqsUpTo(KeyChars, n) \cup {NonStringKey}

\* Spellings of the names i and j.
SpelledKeys == {<<":", "i">>, <<"@", "i">>, <<"$", "i">>, <<"i">>, <<"j">>, <<":", "j">>}

\* The items of a dict of at most n entries: its keys are distinct.
DictItems(n) ==
    {it \in SeqsUpTo(SpelledKeys \X HostValues, n) :
        \A j, k \in 1..Len(it) : j # k => it[j][1] # it[k][1]}

ParamObjects ==
    {[type |-> "None", items |-> <<>>], [type |-> "set", items |-> <<>>]}
    \cup {[type |-> ty, items |-> it] :
            ty \in {"list", "tuple"}, it \in SeqsUpTo(HostValues, MaxSets)}
    \cup {[type |-> "dict", items |-> << <<k, v>> >>] :
            k \in RawKeys(MaxLen), v \in HostValues}
    \cup {[type |-> "dict", items |-> it] : it \in DictItems(MaxSets)}

InitParams ==
    /\ Handles
    /\ arg \in ParamObjects
    /\ ret = NotApplied

Parse ==
    /\ ~ret.applied
    /\ ret' = Applied(ParseParams(arg))
    /\ UNCHANGED <<gil, guard, tx, eng, visible, call, ncalls, closed, db, arg>>

\* ParamValues::Named(n) => to_named_params(n), as every data method does
\* with a Named result before the engine call.
ToNamed ==
    /\ ret.applied
    /\ ret.value.bind = "Named"
    /\ ret' = Applied([bind |-> "NamedParams",
                       values |-> to_named_params(ret.value.values)])
    /\ UNCHANGED <<gil, guard, tx, eng, visible, call, ncalls, closed, db, arg>>

NextParams == Parse \/ ToNamed


SpecParams == InitParams /\ [][NextParams]_vars

----------------------------------------------------------------------------
\* SpecCodec: py_to_value applied to a host value, then value_to_py to the
\* engine value: None, booleans, integers (one beyond 64 bits), a float, a
\* text, an object of no supported type, and datetimes on dates at month
\* and year boundaries, without tzinfo and with UTC offsets of whole and of
\* fractional seconds.

Dates == {<<2024, 1, 1>>, <<2024, 3, 1>>, <<2023, 12, 31>>, <<1, 1, 1>>, <<9999, 12, 31>>}

Times == {<<0, 0, 0, 0>>, <<12, 0, 0, 0>>, <<0, 30, 0, 1>>, <<23, 59, 59, 999999>>}

\* datetime.timezone(timedelta(seconds = secs, microseconds = micros)):
\* UTC, +05:00, -03:30, +05:00:00.5, -05:00:00.5.
Zones ==
    {NoTz, utc_tz,
     [kind |-> "offset", secs |-> 18000, micros |-> 0],
     [kind |-> "offset", secs |-> -12600, micros |-> 0],
     [kind |-> "offset", secs |-> 18000, micros |-> 500000],
     [kind |-> "offset", secs |-> -18001, micros |-> 500000]}

DateTimes ==
    {[year |-> d[1], month |-> d[2], day |-> d[3], hour |-> t[1], minute |-> t[2],
      second |-> t[3], microsecond |-> t[4], tzinfo |-> z] :
        d \in Dates, t \in Times, z \in Zones}

HostScalars ==
    {Host("None", ""), Host("bool", "True"), Host("bool", "False"),
     Host("int", "0"), Host("int", "1"), Host("int", "2^63"),
     Host("float", "1.5"), Host("str", "a"), Host("object", "")}
    \cup {HostDateTime(dt) : dt \in DateTimes}

NotEncoded == [stage |-> "none", enc |-> PyErr, dec |-> Host("None", "")]

InitCodec ==
    /\ Handles
    /\ arg \in HostScalars
    /\ ret = Applied(NotEncoded)

Encode ==
    /\ ret.value.stage = "none"
    /\ ret' = Applied([NotEncoded EXCEPT !.stage = "encoded", !.enc = py_to_value(arg)])
    /\ UNCHANGED <<gil, guard, tx, eng, visible, call, ncalls, closed, db, arg>>

Decode ==
    /\ ret.value.stage = "encoded"
    /\ ~ret.value.enc.err
    /\ ret' = Applied([ret.value EXCEPT !.stage = "decoded",
                                        !.dec = value_to_py(ret.value.enc.value)])
    /\ UNCHANGED <<gil, guard, tx, eng, visible, call, ncalls, closed, db, arg>>

NextCodec == Encode \/ Decode

SpecCodec == InitCodec /\ [][NextCodec]_vars

----------------------------------------------------------------------------
\* SpecPath: Database::open applied to a path: nothing or a scheme-like
\* prefix, then a name, with or without whitespace around.

PathPrefixes ==
    {<<>>, memory_name, memory_scheme, file_scheme, <<"h", "t", "t", "p", ":", "/", "/">>, <<"m", "e", "m", "o", "r", "y", ":", "/">>, <<"F", "I", "L", "E", ":", "/", "/">>}

PathNames == {<<>>, <<"a">>, <<".", "/", "a">>, <<"a", " ", "b">>}

Padding == {<<>>, <<" ">>}

Paths ==
    {l \o p \o n \o r : l \in Padding, p \in PathPrefixes, n \in PathNames, r \in Padding}

InitPath ==
    /\ Handles
    /\ arg \in Paths
    /\ ret = NotApplied

\* Database::open(path): translate_path(path), then ApiDatabase::open(&dsn),
\* which gives a database or an engine error.
Database_open ==
    /\ ~ret.applied
    /\ \E ok \in BOOLEAN :
         ret' = Applied([dsn |-> translate_path(arg), opened |-> ok])
    /\ UNCHANGED <<gil, guard, tx, eng, visible, call, ncalls, closed, db, arg>>

NextPath == Database_open

SpecPath == InitPath /\ [][NextPath]_vars

----------------------------------------------------------------------------
\* Properties of the Transaction handle (checked under Spec).

ErrorResults ==
    {"TypeError", "PositionalOnly", "ParseError", "NoStatement",
     "NotActive", "EngineError"}

HandleOps == DataOps \cup TerminalOps \cup {"execute_batch"}

InEngine(t) == call[t].pc = "engine"

\* C1: once a commit() or rollback() call on the handle has returned
\* (successfully or not), every call of execute, query, query_one,
\* query_raw, execute_batch, commit or rollback entered afterwards makes no
\* engine call on the transaction and returns an error.
C1_ClosedHandleRejects ==
    \A t \in Threads :
        (call[t].after /\ call[t].op \in HandleOps) =>
            /\ call[t].log = <<>>
            /\ ~InEngine(t)
            /\ call[t].pc = "done" => call[t].res \in ErrorResults

C1_Witness ==
    \E t \in Threads :
        /\ call[t].after
        /\ call[t].op = "execute"
        /\ call[t].pc = "done"
        /\ call[t].res = "NotActive"

\* C2: the handle is created Active; it is Active (its Mutex holds the one
\* live engine transaction) or Closed (holds none); a Closed handle never
\* becomes Active again.
C2_OneWayClose ==
    /\ tx = "Some"
    /\ [](tx \in {"Some", "None"})
    /\ [](tx = "Some" => (eng.state = "open" /\ eng.commits + eng.rollbacks = 0))
    /\ [][tx = "None" => tx' = "None"]_vars

C2_Witness ==
    /\ tx = "None"
    /\ eng.state = "aborted"
    /\ \E t \in Threads : call[t].pc = "done" /\ call[t].op = "commit"
                           /\ call[t].res = "EngineError"

\* C3: at most one thread at a time is inside an engine call on the
\* handle's transaction, and a thread inside one holds the handle's guard.
C3_SerializedByGuard ==
    /\ Cardinality({t \in Threads : InEngine(t)}) <= 1
    /\ \A t \in Threads : InEngine(t) => guard = t

C3_Witness ==
    \E t, u \in Threads :
        /\ InEngine(t)
        /\ call[t].op = "execute"
        /\ call[u].pc = "lock"

\* C4: there is no state in which one thread holds the transaction guard
\* and waits for the GIL while another thread holds the GIL and waits for
\* the guard.
C4_NoGuardGilDeadlock ==
    ~ \E t, u \in Threads :
        /\ t # u
        /\ guard = t
        /\ call[t].pc = "gilwait"
        /\ gil = u
        /\ call[u].pc = "entered"

\* C5: a scope exit without exception that finds the handle Active closes
\* it, calls commit once and rollback never on the engine transaction, and
\* returns the commit failure when the commit fails.
C5_CleanExitCommits ==
    \A t \in Threads :
        (call[t].op = "exit" /\ call[t].took /\ ~call[t].exc) =>
            /\ tx = "None"
            /\ eng.rollbacks = 0
            /\ call[t].pc = "engine" => (call[t].log = <<>> /\ eng.commits = 0)
            /\ call[t].pc \in {"gilwait", "done"} =>
                    (call[t].log = << <<"commit", 0>> >> /\ eng.commits = 1)
            /\ call[t].pc = "done" =>
                    call[t].res = IF call[t].engOk THEN "false" ELSE "EngineError"

C5_Witness ==
    \E t \in Threads :
        /\ call[t].op = "exit" /\ call[t].took /\ ~call[t].exc
        /\ call[t].pc = "done"
        /\ ~call[t].engOk
        /\ call[t].res = "EngineError"

\* C6: a scope exit with an exception that finds the handle Active closes
\* it, calls rollback once and commit never on the engine transaction, and
\* returns false (do not suppress) without raising, also when the rollback
\* fails.
C6_ExceptionExitRollsBack ==
    \A t \in Threads :
        (call[t].op = "exit" /\ call[t].took /\ call[t].exc) =>
            /\ tx = "None"
            /\ eng.commits = 0
            /\ call[t].pc = "engine" => (call[t].log = <<>> /\ eng.rollbacks = 0)
            /\ call[t].pc \in {"gilwait", "done"} =>
                    (call[t].log = << <<"rollback", 0>> >> /\ eng.rollbacks = 1)
            /\ call[t].pc = "done" => call[t].res = "false"

C6_Witness ==
    \E t \in Threads :
        /\ call[t].op = "exit" /\ call[t].took /\ call[t].exc
        /\ call[t].pc = "done"
        /\ ~call[t].engOk
        /\ call[t].res = "false"

\* The engine calls a batch has made after k successful or attempted sets:
\* execute_prepared on sets 1..k, in that order.
ExecutedInOrder(k) == [j \in 1..k |-> <<"execute_prepared", j>>]

\* A step of thread t inside the closure of Transaction::execute_batch.
TxBatchStepOf(t) ==
    /\ call[t].op = "execute_batch"
    /\ call[t].pc = "engine"
    /\ call'[t] # call[t]

\* C10: Transaction.execute_batch applies the parameter sets in list order
\* to the handle's own engine transaction, makes no commit or rollback
\* call, and leaves the handle Active whether all sets succeed or one
\* fails; a failing set ends the batch and the writes of the sets before it
\* stay pending in the transaction.
C10_TxBatchKeepsTransaction ==
    /\ [](\A t \in Threads :
            (call[t].op = "execute_batch" /\ call[t].pc \in {"engine", "gilwait", "done"}
                /\ call[t].i >= 1) =>
                /\ call[t].pc = "engine" =>
                        (tx = "Some" /\ call[t].log = ExecutedInOrder(call[t].i - 1))
                /\ (call[t].pc # "engine" /\ call[t].res = "Ok") =>
                        call[t].log = ExecutedInOrder(Len(call[t].plist))
                /\ (call[t].pc # "engine" /\ call[t].res = "EngineError") =>
                        (call[t].i <= Len(call[t].plist)
                            /\ call[t].log = ExecutedInOrder(call[t].i)))
    /\ [][\A t \in Threads :
            TxBatchStepOf(t) =>
                /\ tx' = tx
                /\ visible' = visible
                /\ eng'.state = eng.state
                /\ eng'.commits = eng.commits /\ eng'.rollbacks = eng.rollbacks
                /\ IF call'[t].pc = "engine"
                   THEN eng'.pending = Append(eng.pending, call[t].i)
                   ELSE eng'.pending = eng.pending]_vars

C10_Witness ==
    \E t \in Threads :
        /\ call[t].op = "execute_batch"
        /\ call[t].pc = "done"
        /\ call[t].res = "EngineError"
        /\ call[t].i = 2
        /\ tx = "Some"
        /\ eng.state = "open"
        /\ eng.pending = <<1>>

----------------------------------------------------------------------------
\* Properties of the execute_batch variants (checked under SpecBatch).

\* The engine calls of an owned batch that got through all its sets and
\* then committed.
OwnedFullLog(n) == << <<"begin", 0>> >> \o ExecutedInOrder(n) \o << <<"commit", 0>> >>

\* The parameter sets 1..n in list order.
SetsInOrder(n) == [j \in 1..n |-> j]

\* An owned batch whose every parameter set has executed successfully and
\* that is past its commit call.
AllSetsSucceeded(t) ==
    /\ call[t].op \in OwnedOps
    /\ call[t].pc \in {"gilwait", "done"}
    /\ call[t].i = Len(call[t].plist) + 1

\* C7 as stated: when every parameter set executes successfully, the owned
\* batch begins one transaction, executes the sets in order, commits once
\* after the last set and returns the sum of the rows-affected counts.
C7_AsStated ==
    \A t \in BatchCallers :
        (AllSetsSucceeded(t) /\ Len(call[t].plist) >= 1) =>
            /\ call[t].log = OwnedFullLog(Len(call[t].plist))
            /\ call[t].res = "Ok"
            /\ call[t].total = SumSeq(call[t].counts)

\* C7 amended: ... commits once after the last set; when that commit
\* succeeds the sets become visible, in order, and the call returns the sum
\* of the rows-affected counts; when the commit fails nothing becomes
\* visible and the call returns the commit error.
C7_OwnedBatchCommitsOnce ==
    /\ [](\A t \in BatchCallers :
            AllSetsSucceeded(t) =>
                /\ call[t].log = OwnedFullLog(Len(call[t].plist))
                /\ Len(call[t].counts) = Len(call[t].plist)
                /\ call[t].engOk =>
                        (call[t].res = "Ok" /\ call[t].total = SumSeq(call[t].counts))
                /\ ~call[t].engOk => call[t].res = "EngineError")
    /\ [][\A t \in BatchCallers :
            (call[t].op \in OwnedOps /\ call[t].pc = "own" /\ call'[t].pc = "gilwait"
                /\ call[t].i > Len(call[t].plist)) =>
                    visible' = visible \o (IF call'[t].engOk
                                           THEN SetsInOrder(Len(call[t].plist))
                                           ELSE <<>>)]_vars

C7_Witness ==
    \E t \in BatchCallers :
        /\ AllSetsSucceeded(t)
        /\ Len(call[t].plist) = 2
        /\ call[t].pc = "done"
        /\ call[t].res = "Ok"
        /\ call[t].counts = <<1, 2>>
        /\ call[t].total = 3
        /\ visible = <<1, 2>>

\* An owned batch that has stopped at a failing parameter set.
FailedAtSet(t) ==
    /\ call[t].op \in OwnedOps
    /\ call[t].pc \in {"gilwait", "done"}
    /\ call[t].i >= 1
    /\ call[t].i <= Len(call[t].plist)

\* C8: when the Nth parameter set of an owned batch fails, the call returns
\* that error, executes no later set, calls neither commit nor rollback,
\* drops its transaction, and makes nothing visible.
C8_OwnedBatchAbandons ==
    /\ [](\A t \in BatchCallers :
            FailedAtSet(t) =>
                /\ call[t].res = "EngineError"
                /\ call[t].log = << <<"begin", 0>> >> \o ExecutedInOrder(call[t].i)
                /\ call[t].own = <<>>)
    /\ [][\A t \in BatchCallers :
            (call'[t].op \in OwnedOps /\ call'[t].pc \in {"gilwait", "done"}
                /\ call'[t].i >= 1 /\ call'[t].i <= Len(call'[t].plist)) =>
                    visible' = visible]_vars

C8_Witness ==
    \E t \in BatchCallers :
        /\ FailedAtSet(t)
        /\ call[t].pc = "done"
        /\ call[t].i = 2
        /\ Len(call[t].plist) = 2
        /\ visible = <<>>

\* C9: every execute_batch variant handed a list with a dict entry, at any
\* position, returns an error from its entry code: it makes no engine call,
\* never waits for or holds the guard, and applies no parameter set.
HasNamedEntry(pl) == \E j \in 1..Len(pl) : pl[j] = "dict"

C9_NamedEntryRejectedFirst ==
    \A t \in BatchCallers :
        (call[t].op \in OwnedOps \cup {"execute_batch"} /\ HasNamedEntry(call[t].plist)) =>
            /\ call[t].pc = "done"
            /\ call[t].res \in {"PositionalOnly", "TypeError"}
            /\ call[t].log = <<>>
            /\ call[t].own = <<>>
            /\ guard # t

C9_Witness ==
    \E t \in BatchCallers :
        /\ call[t].op = "execute_batch"
        /\ call[t].plist = <<"list", "dict">>
        /\ call[t].pc = "done"
        /\ call[t].res = "PositionalOnly"
        /\ call[t].log = <<>>

\* C26: over the lifetime of the handle, whatever the interleaving of
\* commit, rollback and scope-exit calls of the threads, the engine
\* transaction receives at most one terminal call (one commit or one
\* rollback, never both, never twice), and no data call (execute, query,
\* execute_prepared) is issued to it once that terminal call has started.
TerminalStarted ==
    \/ eng.commits + eng.rollbacks > 0
    \/ \E u \in Threads : call[u].took

C26_OneTerminalCall ==
    /\ eng.commits + eng.rollbacks <= 1
    /\ Cardinality({u \in Threads : call[u].took}) <= 1
    /\ \A t \in Threads :
        (InEngine(t) /\ call[t].op \in DataOps \cup {"execute_batch"}) => ~TerminalStarted
    /\ TerminalStarted => tx = "None"

C26_Witness ==
    \E t, u \in Threads :
        /\ call[t].op = "commit" /\ call[t].pc = "gilwait" /\ call[t].res = "NotActive"
        /\ call[t].log = <<>>
        /\ call[u].op = "exit" /\ call[u].took /\ call[u].pc = "done"
        /\ eng.commits + eng.rollbacks = 1

\* A step of thread t within one of its calls of op.
StepOf(t, op) ==
    /\ call'[t] # call[t]
    /\ call'[t].op = op

\* C27: a data operation on an Active handle (execute, query and its
\* variants, execute_batch) never changes the handle's state, whether its
\* engine call succeeds or fails: no step of such a call changes what the
\* Mutex holds.  Scope entry changes nothing either and returns the handle
\* itself.
C27_DataOpsKeepState ==
    /\ [][\A t \in Threads :
            (\E op \in DataOps \cup {"execute_batch", "enter"} : StepOf(t, op)) =>
                /\ tx' = tx
                /\ call'[t].op = "enter" =>
                        (call'[t].res = "self" /\ eng' = eng /\ guard' = guard)]_vars
    /\ [](\A t \in Threads :
            (call[t].op \in DataOps \cup {"execute_batch"} /\ call[t].log # <<>>
                /\ ~TerminalStarted) => tx = "Some")

C27_Witness ==
    \E t \in Threads :
        /\ call[t].op = "execute"
        /\ call[t].pc = "done"
        /\ call[t].res = "EngineError"
        /\ call[t].log # <<>>
        /\ tx = "Some"

\* C28: scope exit on a handle that is already Closed makes no engine call,
\* raises no error and returns false (do not suppress), on clean and on
\* abnormal exit alike.
C28_ExitOnClosedIsNoop ==
    \A t \in Threads :
        /\ (call[t].op = "exit" /\ call[t].after) =>
                /\ ~InEngine(t)
                /\ call[t].log = <<>>
                /\ ~call[t].took
        /\ (call[t].op = "exit" /\ ~call[t].took) =>
                /\ call[t].log = <<>>
                /\ call[t].pc = "done" => call[t].res = "false"

C28_Witness ==
    \E t \in Threads :
        /\ call[t].op = "exit"
        /\ call[t].after
        /\ call[t].exc
        /\ call[t].pc = "done"
        /\ call[t].res = "false"
        /\ eng.commits = 1

\* Properties of the three execute_batch variants (checked under
\* SpecBatch).

ParsingBatchOps == {"Database.execute_batch", "execute_batch"}

BatchOps == OwnedOps \cup {"execute_batch"}

ParamsAccepted(t) == BatchParams(call[t].plist, 1) = "Ok"

\* The call has asked the engine for a transaction or for an execution.
BatchStarted(t) ==
    \/ call[t].log # <<>>
    \/ call[t].pc \in {"begin", "own", "lock", "engine"}

\* C29, as stated: in all three variants the SQL text is parsed once per
\* call and only its first statement is applied; in Database.execute_batch
\* and Transaction.execute_batch a parse failure or a script with no
\* statement is reported before any transaction is begun and before any
\* parameter set is executed; an empty parameter-set list on the owned
\* variants begins and commits one empty transaction and returns 0.
C29_AsStated ==
    \A t \in BatchCallers :
        /\ (call[t].op \in BatchOps /\ ParamsAccepted(t)) => call[t].parses = 1
        /\ (call[t].op \in ParsingBatchOps /\ BatchStarted(t)) =>
                call[t].stmts = <<"s1">>
        /\ (call[t].op \in ParsingBatchOps /\ ParamsAccepted(t)
                /\ ParseFirst(call[t].sql) # "Ok") =>
                /\ ~BatchStarted(t)
                /\ call[t].pc = "done" => call[t].res = ParseFirst(call[t].sql)
        /\ (call[t].op \in OwnedOps /\ call[t].plist = <<>> /\ call[t].pc = "done"
                /\ ParseFirst(call[t].sql) = "Ok") =>
                /\ call[t].log = << <<"begin", 0>>, <<"commit", 0>> >>
                /\ call[t].res = "Ok"
                /\ call[t].total = 0

\* C29, amended: Database.execute_batch and Transaction.execute_batch parse
\* the SQL text once per call, after the parameter sets were accepted, and
\* apply only its first statement; PreparedStatement.execute_batch parses
\* nothing and applies the statement of its plan.  In the two parsing
\* variants a parse failure or a script with no statement is reported
\* before any transaction is begun and before any parameter set is
\* executed.  With an empty parameter-set list an owned variant begins one
\* transaction and, if that succeeds, commits it; it returns 0 when both
\* calls succeed and the engine's error otherwise, and nothing becomes
\* visible.
C29_BatchParsesFirst ==
    \A t \in BatchCallers :
        /\ call[t].op \in ParsingBatchOps =>
                call[t].parses = IF ParamsAccepted(t) THEN 1 ELSE 0
        /\ call[t].op = "PreparedStatement.execute_batch" =>
                /\ call[t].parses = 0
                /\ BatchStarted(t) => call[t].plan = db.stmt.plan
        /\ (call[t].op \in ParsingBatchOps /\ BatchStarted(t)) =>
                call[t].stmts = <<"s1">>
        /\ (call[t].op \in ParsingBatchOps /\ ParamsAccepted(t)
                /\ ParseFirst(call[t].sql) # "Ok") =>
                /\ ~BatchStarted(t)
                /\ call[t].pc = "done" => call[t].res = ParseFirst(call[t].sql)
        /\ (call[t].op \in OwnedOps /\ call[t].plist = <<>> /\ call[t].pc = "done"
                /\ ParseFirst(call[t].sql) = "Ok") =>
                /\ call[t].total = 0
                /\ call[t].own = <<>>
                /\ \/ /\ call[t].log = << <<"begin", 0>> >>
                      /\ call[t].res = "EngineError"
                   \/ /\ call[t].log = << <<"begin", 0>>, <<"commit", 0>> >>
                      /\ call[t].res = IF call[t].engOk THEN "Ok" ELSE "EngineError"

C29_Witness ==
    \E t \in BatchCallers :
        /\ call[t].op = "Database.execute_batch"
        /\ call[t].sql = "ok"
        /\ call[t].plist = <<>>
        /\ call[t].pc = "done"
        /\ call[t].parses = 1
        /\ call[t].stmts = <<"s1">>
        /\ call[t].log = << <<"begin", 0>>, <<"commit", 0>> >>
        /\ call[t].res = "Ok"

----------------------------------------------------------------------------
\* Properties of split_sql_statements (checked under SpecSplit).

\* The scanner at the top of every loop turn, and after the last one.
RECURSIVE ScanTrace(_, _)
ScanTrace(chars, s) ==
    IF s.i > Len(chars) THEN <<s>> ELSE <<s>> \o ScanTrace(chars, ScanStep(chars, s))

Turns(chars) == ScanTrace(chars, ScanStart)

\* The positions of the semicolons at which the scanner emitted a statement.
Delimiters(chars) ==
    LET tr == Turns(chars) IN
    {tr[k].i : k \in {j \in 1..(Len(tr) - 1) :
                        Len(tr[j + 1].statements) = Len(tr[j].statements) + 1}}

\* The lexical structure the statement names: a text is code interrupted by
\* single-quoted literals, double-quoted literals, line comments and block
\* comments; a literal runs from its opening quote to the next quote of
\* the same kind not preceded by a backslash, a line comment from "--" to
\* the next newline, a block comment from "/*" to the next "*/".  The
\* semicolons lying in code, from position i on, when position i is in
\* region mode.
RECURSIVE CodeSemicolons(_, _, _)
CodeSemicolons(chars, i, mode) ==
    IF i > Len(chars) THEN {}
    ELSE LET c == chars[i]
             bare == i = 1 \/ chars[i - 1] # "\\"
             two(x, y) == c = x /\ i + 1 <= Len(chars) /\ chars[i + 1] = y
             dashes == /\ two("-", "-")
                       /\ \/ i + 2 > Len(chars)
                          \/ chars[i + 2] \in {" ", "\t", "\n", "\r", NUL}
         IN  CASE mode = "line" ->
                    CodeSemicolons(chars, i + 1, IF c = "\n" THEN "code" ELSE "line")
               [] mode = "block" ->
                    IF two("*", "/") THEN CodeSemicolons(chars, i + 2, "code")
                    ELSE CodeSemicolons(chars, i + 1, "block")
               [] mode = "single" ->
                    CodeSemicolons(chars, i + 1,
                                   IF c = "'" /\ bare THEN "code" ELSE "single")
               [] mode = "double" ->
                    CodeSemicolons(chars, i + 1,
                                   IF c = "\"" /\ bare THEN "code" ELSE "double")
               [] OTHER ->
                    IF dashes THEN CodeSemicolons(chars, i + 2, "line")
                    ELSE IF two("/", "*") THEN CodeSemicolons(chars, i + 2, "block")
                    ELSE IF c = "'" /\ bare THEN CodeSemicolons(chars, i + 1, "single")
                    ELSE IF c = "\"" /\ bare THEN CodeSemicolons(chars, i + 1, "double")
                    ELSE IF c = ";" THEN {i} \cup CodeSemicolons(chars, i + 1, "code")
                    ELSE CodeSemicolons(chars, i + 1, "code")

\* C14: split_sql_statements treats a semicolon as a statement delimiter
\* exactly when it lies outside every single-quoted literal, double-quoted
\* literal, line comment and block comment of the text.
C14_DelimiterIffOutside ==
    ret.applied => Delimiters(arg) = CodeSemicolons(arg, 1, "code")

\* Turn k of the scan of chars starts a line comment.
StartsComment(tr, k) == ~tr[k].in_line_comment /\ tr[k + 1].in_line_comment

\* What a turn inside a line comment does: it drops the character and
\* emits nothing; a newline ends the comment and is kept.
InsideComment(chars, tr, k) ==
    tr[k].in_line_comment =>
        /\ tr[k + 1].statements = tr[k].statements
        /\ IF chars[tr[k].i] = "\n"
           THEN /\ ~tr[k + 1].in_line_comment
                /\ tr[k + 1].current = Append(tr[k].current, "\n")
           ELSE /\ tr[k + 1].in_line_comment
                /\ tr[k + 1].current = tr[k].current

\* A line comment starts at position p of chars only when "--" is there,
\* followed by one of the characters of after or by the end of the text,
\* and the scanner is in no quote and no block comment.
CommentStartsOnlyAt(chars, tr, k, after) ==
    StartsComment(tr, k) =>
        LET p == tr[k].i IN
        /\ chars[p] = "-" /\ p + 1 <= Len(chars) /\ chars[p + 1] = "-"
        /\ p + 2 > Len(chars) \/ chars[p + 2] \in after
        /\ ~tr[k].in_single /\ ~tr[k].in_double /\ ~tr[k].in_block_comment

\* "SELECT 1; -- c ; \n SELECT 2;" yields "SELECT 1" and " \n SELECT 2".
LineCommentStatements ==
    << <<"S", "E", "L", "E", "C", "T", " ", "1">>,
       <<" ", "\n", " ", "S", "E", "L", "E", "C", "T", " ", "2">> >>

\* C15 as stated: a line comment starts at "--" only when the next
\* character is a space, a tab, a newline, a carriage return or the end of
\* the input, and the scanner is in no quote and no block comment; it runs
\* to the next newline, no semicolon inside it delimits, and the newline
\* that ends it is kept.
C15_AsStated ==
    ret.applied =>
        LET tr == Turns(arg) IN
        \A k \in 1..(Len(tr) - 1) :
            /\ CommentStartsOnlyAt(arg, tr, k, {" ", "\t", "\n", "\r"})
            /\ InsideComment(arg, tr, k)

\* C15 amended: ... only when the next character is a space, a tab, a
\* newline, a carriage return, a NUL character or the end of the input ...;
\* the text "SELECT 1; -- c ; \n SELECT 2;" yields exactly "SELECT 1" and
\* " \n SELECT 2".
C15_LineComment ==
    ret.applied =>
        LET tr == Turns(arg) IN
        /\ \A k \in 1..(Len(tr) - 1) :
            /\ CommentStartsOnlyAt(arg, tr, k, {" ", "\t", "\n", "\r", NUL})
            /\ InsideComment(arg, tr, k)
        /\ arg = LineCommentText => ret.value = LineCommentStatements

C15_Witness ==
    /\ ret.applied
    /\ arg = LineCommentText
    /\ ret.value = LineCommentStatements

\* C16: a ' or " whose preceding character is a backslash never changes
\* the in-quote state; one that is not preceded by a backslash and is
\* outside comments always flips the state of its own kind.
C16_BackslashKeepsQuoteState ==
    ret.applied =>
        LET tr == Turns(arg) IN
        \A p \in 1..Len(arg) :
            arg[p] \in {"'", "\""} =>
                \E k \in 1..(Len(tr) - 1) :
                    /\ tr[k].i = p
                    /\ IF p > 1 /\ arg[p - 1] = "\\"
                       THEN /\ tr[k + 1].in_single = tr[k].in_single
                            /\ tr[k + 1].in_double = tr[k].in_double
                       ELSE (~tr[k].in_line_comment /\ ~tr[k].in_block_comment) =>
                                IF arg[p] = "'"
                                THEN tr[k + 1].in_single = ~tr[k].in_single
                                ELSE tr[k + 1].in_double = ~tr[k].in_double

\* "\';" is one statement followed by a delimiter: the quote opened nothing.
C16_Witness ==
    /\ ret.applied
    /\ arg = <<"\\", "'", ";">>
    /\ ret.value = << <<"\\", "'">> >>

\* The positions whose character the scanner appended to the statement it
\* was accumulating.
Kept(chars) ==
    LET tr == Turns(chars) IN
    {tr[k].i : k \in {j \in 1..(Len(tr) - 1) :
                        Len(tr[j + 1].current) = Len(tr[j].current) + 1}}

\* The characters of chars at the positions of K from lo upwards, in order.
RECURSIVE Pick(_, _, _)
Pick(chars, K, lo) ==
    IF lo > Len(chars) THEN <<>>
    ELSE (IF lo \in K THEN <<chars[lo]>> ELSE <<>>) \o Pick(chars, K, lo + 1)

\* The j-th delimiter of D, counted from 1; position 0 stands before the
\* first.
DelimiterAt(D, j) ==
    IF j = 0 THEN 0 ELSE CHOOSE d \in D : Cardinality({e \in D : e < d}) = j - 1

\* The text accumulated between two positions.
Between(chars, lo, hi) ==
    Pick(chars, {p \in Kept(chars) : lo < p /\ p < hi}, 1)

\* C17: one statement is emitted per delimiter semicolon, the text
\* accumulated since the previous delimiter (possibly empty); after the
\* last delimiter the remaining fragment is emitted exactly when it is not
\* empty, so a text ending in a delimiter gets no trailing statement.
C17_OneStatementPerDelimiter ==
    ret.applied =>
        LET D == Delimiters(arg)
            n == Cardinality(D)
            rest == Between(arg, DelimiterAt(D, n), Len(arg) + 1)
        IN  /\ Len(ret.value) = n + (IF rest # <<>> THEN 1 ELSE 0)
            /\ \A j \in 1..n :
                ret.value[j] = Between(arg, DelimiterAt(D, j - 1), DelimiterAt(D, j))
            /\ rest # <<>> => ret.value[n + 1] = rest
            /\ (arg # <<>> /\ Len(arg) \in D) => Len(ret.value) = n

\* "a;;" yields "a" and the empty statement, and nothing after them.
C17_Witness ==
    /\ ret.applied
    /\ arg = <<"a", ";", ";">>
    /\ ret.value = << <<"a">>, <<>> >>

\* The text with its delimiter semicolons, its block comments ("/*" and
\* "*/" included) and its line comments (from "--" up to, not including, the
\* newline) removed, from position i on, when position i is in region mode;
\* the regions are those of CodeSemicolons.
RECURSIVE CodeText(_, _, _)
CodeText(chars, i, mode) ==
    IF i > Len(chars) THEN <<>>
    ELSE LET c == chars[i]
             bare == i = 1 \/ chars[i - 1] # "\\"
             two(x, y) == c = x /\ i + 1 <= Len(chars) /\ chars[i + 1] = y
             dashes == /\ two("-", "-")
                       /\ \/ i + 2 > Len(chars)
                          \/ chars[i + 2] \in {" ", "\t", "\n", "\r", NUL}
         IN  CASE mode = "line" ->
                    IF c = "\n" THEN <<c>> \o CodeText(chars, i + 1, "code")
                    ELSE CodeText(chars, i + 1, "line")
               [] mode = "block" ->
                    IF two("*", "/") THEN CodeText(chars, i + 2, "code")
                    ELSE CodeText(chars, i + 1, "block")
               [] mode = "single" ->
                    <<c>> \o CodeText(chars, i + 1,
                                      IF c = "'" /\ bare THEN "code" ELSE "single")
               [] mode = "double" ->
                    <<c>> \o CodeText(chars, i + 1,
                                      IF c = "\"" /\ bare THEN "code" ELSE "double")
               [] OTHER ->
                    IF dashes THEN CodeText(chars, i + 2, "line")
                    ELSE IF two("/", "*") THEN CodeText(chars, i + 2, "block")
                    ELSE IF c = "'" /\ bare THEN <<c>> \o CodeText(chars, i + 1, "single")
                    ELSE IF c = "\"" /\ bare THEN <<c>> \o CodeText(chars, i + 1, "double")
                    ELSE IF c = ";" THEN CodeText(chars, i + 1, "code")
                    ELSE <<c>> \o CodeText(chars, i + 1, "code")

RECURSIVE Concat(_)
Concat(statements) ==
    IF statements = <<>> THEN <<>> ELSE Head(statements) \o Concat(Tail(statements))

\* C30: split_sql_statements terminates on every input, and the
\* concatenation of the statements it returns is the input with the
\* delimiter semicolons, the block-comment text (its "/*" and "*/"
\* included) and the line-comment text (from "--" up to, not including, the
\* newline) removed, every other character kept in its place.
C30_ConcatenationIsCode ==
    ret.applied => Concat(ret.value) = CodeText(arg, 1, "code")

----------------------------------------------------------------------------
\* Properties of parse_params (checked under SpecParams).

Markers == {":", "@", "$"}

\* C20: parse_params stores each dict key with its leading ':', '@' and '$'
\* markers stripped: ':i', '@i' and '$i' all bind the name 'i', and for
\* every raw key the stored name does not begin with ':', '@' or '$'.
C20_StoredNameHasNoMarker ==
    (ret.applied /\ arg.type = "dict" /\ ret.value.bind = "Named") =>
        \A j \in 1..Len(arg.items) :
            LET raw == arg.items[j][1]
                name == ret.value.values[j][1]
            IN  /\ raw \in {<<":", "i">>, <<"@", "i">>, <<"$", "i">>} => name = <<"i">>
                /\ name = <<>> \/ Head(name) \notin Markers

\* C21: when several raw keys of a parameter dict normalize to the same
\* name, the named parameters handed to the engine hold a single binding of
\* that name, and its value is that of the raw key that comes last in the
\* dict's iteration order.
LastSpelling(items, name) ==
    CHOOSE j \in 1..Len(items) :
        /\ clean_key(items[j][1]) = name
        /\ \A k \in (j + 1)..Len(items) : clean_key(items[k][1]) # name

C21_LastSpellingWins ==
    (ret.applied /\ ret.value.bind = "NamedParams") =>
        \A j \in 1..Len(arg.items) :
            LET name == clean_key(arg.items[j][1])
                bound == {k \in 1..Len(ret.value.values) : ret.value.values[k][1] = name}
            IN  /\ Cardinality(bound) = 1
                /\ \A k \in bound :
                      ret.value.values[k][2] =
                          py_to_value(arg.items[LastSpelling(arg.items, name)][2]).value

C21_Witness ==
    /\ ret.applied
    /\ ret.value.bind = "NamedParams"
    /\ arg.items = << <<<<":", "i">>, Host("int", "1")>>, <<<<"@", "i">>, Host("str", "a")>> >>
    /\ ret.value.values = << <<<<"i">>, EngineValue("Text", "a")>> >>

\* C22: for a list or tuple of n supported values parse_params returns a
\* Positional vector of exactly n values whose i-th element is the encoding
\* of the i-th item; an absent (None) argument yields an empty Positional
\* vector.
Supported(items) == \A j \in 1..Len(items) : ~py_to_value(items[j]).err

C22_PositionalInOrder ==
    ret.applied =>
        /\ (arg.type \in {"list", "tuple"} /\ Supported(arg.items)) =>
                /\ ret.value.bind = "Positional"
                /\ Len(ret.value.values) = Len(arg.items)
                /\ \A j \in 1..Len(arg.items) :
                      ret.value.values[j] = py_to_value(arg.items[j]).value
        /\ arg.type = "None" => ret.value = [bind |-> "Positional", values |-> <<>>]

C22_Witness ==
    /\ ret.applied
    /\ arg.type = "tuple"
    /\ arg.items = <<Host("int", "1"), Host("str", "a")>>
    /\ ret.value.values = <<EngineValue("Integer", "1"), EngineValue("Text", "a")>>

----------------------------------------------------------------------------
\* Properties of py_to_value and value_to_py (checked under SpecCodec).

\* The UTC instant a datetime with tzinfo denotes to the host: its
\* wall-clock fields less its whole offset.
UtcInstant(dt) ==
    LET local == and_hms_micro_opt(dt)
        m == local.micros - dt.tzinfo.micros
    IN  IF m < 0
        THEN [sub_seconds(local, dt.tzinfo.secs + 1) EXCEPT !.micros = m + 1000000]
        ELSE [sub_seconds(local, dt.tzinfo.secs) EXCEPT !.micros = m]

\* a == b on the host: values of one type with equal content; a datetime
\* without tzinfo never equals one with tzinfo, two with tzinfo are equal
\* when they denote the same instant.
HostEq(a, b) ==
    /\ a.type = b.type
    /\ a.v = b.v
    /\ IF a.dt.tzinfo.kind = "naive" \/ b.dt.tzinfo.kind = "naive"
       THEN a.dt = b.dt
       ELSE UtcInstant(a.dt) = UtcInstant(b.dt)

SupportedScalar(v) ==
    \/ v.type \in {"bool", "float", "str", "datetime"}
    \/ v.type = "int" /\ extract_i64(v)

\* C23: for every supported scalar host value v (boolean, 64-bit integer,
\* float, text, microsecond-precision timestamp) value_to_py(py_to_value(v))
\* equals v; a boolean encodes to the engine Boolean type and decodes to a
\* boolean, never to the integer 0 or 1.
C23_RoundTrip ==
    (ret.value.stage = "decoded" /\ SupportedScalar(arg)) =>
        /\ HostEq(ret.value.dec, arg)
        /\ arg.type = "bool" =>
                /\ ret.value.enc.value.type = "Boolean"
                /\ ret.value.dec.type = "bool"

\* C24: py_datetime_to_value encodes a datetime without timezone as the UTC
\* instant with the same wall-clock fields, and a datetime with a UTC offset
\* as the instant obtained by subtracting the offset from its wall-clock
\* fields, carrying across minute, hour, day, month and year boundaries;
\* naive 2024-01-01 12:00:00 encodes to 2024-01-01T12:00:00Z and 2024-01-01
\* 12:00:00 at +05:00 to 2024-01-01T07:00:00Z.
C24_OffsetSubtracted ==
    (ret.value.stage = "encoded" /\ arg.type = "datetime") =>
        /\ ~ret.value.enc.err
        /\ ret.value.enc.value.type = "Timestamp"
        /\ arg.dt.tzinfo.kind = "naive" =>
                ret.value.enc.value.ts = and_hms_micro_opt(arg.dt)
        /\ arg.dt.tzinfo.kind = "offset" =>
                ret.value.enc.value.ts = UtcInstant(arg.dt)
        /\ (arg.dt.year = 2024 /\ arg.dt.month = 1 /\ arg.dt.hour = 12
                /\ arg.dt.tzinfo \in {NoTz, [kind |-> "offset", secs |-> 18000, micros |-> 0]}) =>
                ret.value.enc.value.ts =
                    [year |-> 2024, month |-> 1, day |-> 1, micros |-> 0,
                     secs |-> IF arg.dt.tzinfo = NoTz THEN 43200 ELSE 25200]

----------------------------------------------------------------------------
\* Properties of Database::open (checked under SpecPath).

SchemeMark == <<":", "/", "/">>

\* The string begins with a name followed by "://".
CarriesScheme(str) ==
    \E k \in 2..Len(str) :
        /\ starts_with(SubSeq(str, k, Len(str)), SchemeMark)
        /\ \A j \in 1..(k - 1) : str[j] \notin {" ", ":", "/", "."}

\* C25, as stated: an empty string or ':memory:' opens the in-memory
\* database, a bare path opens a file-backed database at that path, and any
\* string that already carries a 'scheme://' prefix is handed to the engine
\* unchanged.
C25_AsStated ==
    ret.applied =>
        IF arg = <<>> \/ arg = memory_name THEN ret.value.dsn = memory_scheme
        ELSE IF CarriesScheme(arg) THEN ret.value.dsn = arg
        ELSE ret.value.dsn = file_scheme \o arg

\* C25, amended: with the whitespace around the path removed, an empty
\* string or ':memory:' opens the in-memory database (memory://), a string
\* that begins with memory:// or file:// is handed to the engine as it is,
\* and every other string, one with another scheme included, is handed over
\* with file:// put before it.
Blank(str) == \A j \in 1..Len(str) : is_whitespace(str[j])

C25_TwoSchemesPassThrough ==
    ret.applied =>
        \E i \in 1..(Len(arg) + 1), j \in 0..Len(arg) :
            LET core == SubSeq(arg, i, j) IN
            /\ Blank(SubSeq(arg, 1, i - 1))
            /\ Blank(SubSeq(arg, j + 1, Len(arg)))
            /\ core = <<>> \/ (~is_whitespace(Head(core)) /\ ~is_whitespace(core[Len(core)]))
            /\ IF core = <<>> \/ core = memory_name THEN ret.value.dsn = memory_scheme
               ELSE IF \E rest \in {SubSeq(core, k, Len(core)) : k \in 1..(Len(core) + 1)} :
                          core = memory_scheme \o rest \/ core = file_scheme \o rest
                    THEN ret.value.dsn = core
                    ELSE ret.value.dsn = file_scheme \o core

C25_Witness ==
    /\ ret.applied
    /\ arg = <<"h", "t", "t", "p", ":", "/", "/", "a">>
    /\ ret.value.dsn = <<"f", "i", "l", "e", ":", "/", "/", "h", "t", "t", "p", ":", "/", "/", "a">>

----------------------------------------------------------------------------
\* Properties of Database::exec (checked under SpecExec).

\* The engine calls exec owes for the first n statements of the split
\* script: one parameterless execute per statement that is not blank, on
\* its trimmed text, in script order.
RECURSIVE NonBlankExecuted(_, _)
NonBlankExecuted(stmts, n) ==
    IF n = 0 THEN <<>>
    ELSE NonBlankExecuted(stmts, n - 1)
            \o (IF trim(stmts[n]) # <<>>
                THEN << <<"execute", trim(stmts[n]), <<>> >> >>
                ELSE <<>>)

\* A step of thread t inside the loop of exec.
ExecStepOf(t) ==
    /\ call[t].op = "Database.exec"
    /\ call[t].pc = "exec"
    /\ call'[t] # call[t]

\* C11: Database.exec hands the non-blank statements of the script to the
\* engine one at a time, in script order, each trimmed and with no
\* parameters, and skips the blank ones without an engine call; at the
\* first failing statement it returns that failure and executes nothing
\* after it; what the earlier statements wrote stays visible, and exec
\* begins, commits and rolls back no transaction.
C11_ExecStopsAtFirstFailure ==
    /\ [](\A t \in ApiCallers :
            call[t].op = "Database.exec" =>
                /\ call[t].pc = "exec" =>
                        call[t].log = NonBlankExecuted(call[t].stmts, call[t].i - 1)
                /\ (call[t].pc # "exec" /\ call[t].res = "Ok") =>
                        call[t].log = NonBlankExecuted(call[t].stmts, Len(call[t].stmts))
                /\ (call[t].pc # "exec" /\ call[t].res # "Ok") =>
                        /\ call[t].res = "EngineError"
                        /\ call[t].i <= Len(call[t].stmts)
                        /\ call[t].log = NonBlankExecuted(call[t].stmts, call[t].i)
                        /\ call[t].log # NonBlankExecuted(call[t].stmts, call[t].i - 1))
    /\ [][\A t \in ApiCallers :
            ExecStepOf(t) =>
                /\ tx' = tx /\ eng' = eng
                /\ IF Len(call'[t].log) > Len(call[t].log) /\ call'[t].pc = "exec"
                   THEN visible' = Append(visible, trim(call[t].stmts[call[t].i]))
                   ELSE visible' = visible]_vars

\* "a; ; b ": a succeeds, the blank is skipped, b fails; a stays visible.
C11_Witness ==
    \E t \in ApiCallers :
        /\ call[t].op = "Database.exec"
        /\ call[t].pc = "done"
        /\ call[t].res = "EngineError"
        /\ call[t].stmts = << <<"a">>, <<" ">>, <<" ", "b", " ">> >>
        /\ call[t].log = << <<"execute", <<"a">>, <<>> >>, <<"execute", <<"b">>, <<>> >> >>
        /\ visible = << <<"a">> >>

----------------------------------------------------------------------------
\* Properties of the methods of the three classes (checked under SpecApi,
\* C13 under Spec).

\* execute, query, query_one and query_raw of the three classes.
ParamOps == DataOps \cup DatabaseDataOps \cup StatementDataOps

\* Thread t enters a method in this step.
Enters(t) == call[t].pc = "idle" /\ call'[t].pc # "idle"

\* C12: execute, query, query_one and query_raw of Database,
\* PreparedStatement and Transaction, handed a parameter argument that is
\* neither null, a list, a tuple nor a dict, or one with an element of an
\* unsupported type, return the TypeError from their entry code: no engine
\* call is made, the transaction guard is neither waited for nor taken, and
\* the engine and the handles are left as they were.
C12_BadParamsFailFirst ==
    /\ [](\A t \in ApiCallers :
            (call[t].op \in ParamOps /\ call[t].kind = "bad") =>
                /\ call[t].pc = "done"
                /\ call[t].res = "TypeError"
                /\ call[t].log = <<>>
                /\ guard # t)
    /\ [][\A t \in ApiCallers :
            (Enters(t) /\ call'[t].op \in ParamOps /\ call'[t].kind = "bad") =>
                /\ tx' = tx /\ eng' = eng /\ visible' = visible
                /\ db' = db /\ guard' = guard]_vars

C12_Witness ==
    \E t \in ApiCallers :
        /\ call[t].op = "PreparedStatement.query"
        /\ call[t].kind = "bad"
        /\ call[t].pc = "done"
        /\ call[t].res = "TypeError"
        /\ db.stmt.plan = 1
        /\ tx = "Some"

\* A data operation entered on a Closed handle that has returned.
ClosedDataOpDone(t) ==
    /\ call[t].op \in DataOps \cup {"execute_batch"}
    /\ call[t].after
    /\ call[t].pc = "done"

\* C13 as stated: a data operation (execute, query, query_one, query_raw,
\* execute_batch) invoked on a Closed handle fails with the 'transaction is
\* no longer active' error, whatever its SQL text and parameters are.
C13_AsStated ==
    \A t \in Threads : ClosedDataOpDone(t) => call[t].res = "NotActive"

\* The arguments of the call pass the checks made before with_tx: the
\* parameters parse, and for execute_batch no entry is a dict and the SQL
\* text parses to at least one statement.
ArgumentsAccepted(t) ==
    IF call[t].op = "execute_batch"
    THEN BatchParams(call[t].plist, 1) = "Ok" /\ ParseFirst(call[t].sql) = "Ok"
    ELSE call[t].kind # "bad"

\* C13 amended: a data operation invoked on a Closed handle makes no engine
\* call on the transaction and fails; with arguments that pass the checks
\* made before the handle is looked at it fails with the 'transaction is no
\* longer active' error, otherwise with the error of the first such check
\* (parameter TypeError, positional-only TypeError, SQL parse error, no
\* statement).
C13_ClosedDataOpFails ==
    \A t \in Threads :
        ClosedDataOpDone(t) =>
            /\ call[t].log = <<>>
            /\ ArgumentsAccepted(t) => call[t].res = "NotActive"
            /\ ~ArgumentsAccepted(t) =>
                    call[t].res \in {"TypeError", "PositionalOnly",
                                     "ParseError", "NoStatement"}

C13_Witness ==
    \E t \in Threads :
        /\ ClosedDataOpDone(t)
        /\ call[t].op = "execute_batch"
        /\ call[t].plist = <<"list">>
        /\ call[t].sql = "ok"
        /\ call[t].res = "NotActive"
        /\ tx = "None"

\* Thread t is inside a blocking engine call, or between two of one
\* closure.
InEngineCall(t) ==
    call[t].pc \in {"engine", "begin", "own", "dbcall", "exec", "compile"}

\* C18: every blocking engine call of this layer (execute, query, begin,
\* commit, rollback, close, plan compilation in prepare) is made with the
\* host global lock released.
C18_EngineCallsReleaseGil ==
    \A t \in ApiCallers : InEngineCall(t) => gil # t

\* The methods of a PreparedStatement handle.
StatementOps == StatementDataOps \cup {"PreparedStatement.execute_batch"}

\* Thread t is in a PreparedStatement method, past the parsing of its
\* parameters.
UsesPlan(t) ==
    /\ call[t].op \in StatementOps
    /\ call[t].pc \in {"dbcall", "begin", "own", "gilwait"}

====
